---- MODULE Spec2Model ----
(***************************************************************************)
(* Idempotent persistence of health payloads (app/db/insert_logic.py) on   *)
(* a PostgreSQL store (app/db/models.py), driven by concurrent requests,   *)
(* each with its own AsyncSession (app/dependencies.py).                   *)
(*                                                                         *)
(* One request is one call of insert_health_data.  The suspension points   *)
(* that other requests can observe are the payload lookup, the payload     *)
(* insert and the commit: everything between the payload insert and the    *)
(* commit writes rows keyed by the payload id this call generated, which   *)
(* no other call can read or collide with before the commit.               *)
(***************************************************************************)
EXTENDS Integers, Sequences, FiniteSets, TLC

\* Longest metric list of a submitted payload.
MaxMetrics == 2

\* Default arguments of the data writers.
batch_size == 500
max_params == 200

\* The concurrent calls of insert_health_data, one session each.
Requests == {"r1", "r2"}

None == <<>>

SeqsUpTo(S, n) == UNION {[1..k -> S] : k \in 0..n}

Min(a, b) == IF a < b THEN a ELSE b
Max(a, b) == IF a > b THEN a ELSE b

(***************************************************************************)
(* Inputs: parsed payloads (app/api/models.py).                            *)
(***************************************************************************)
BloodPressureA == <<[date |-> 1, systolic |-> 120, diastolic |-> 80]>>
BloodPressureB == <<[date |-> 1, systolic |-> 121, diastolic |-> 80]>>
StepCountA == <<[date |-> 1, qty |-> 70, source |-> "watch"]>>

\* An entry that is no parsed model: it has neither model_dump nor the
\* attributes of an entry.
RawEntry == [raw |-> "dict"]
has_model_dump(entry) == "raw" \notin DOMAIN entry

\* Two entries with one natural key (metric, date).
BloodPressureTwice ==
    <<[date |-> 1, systolic |-> 120, diastolic |-> 80],
      [date |-> 1, systolic |-> 125, diastolic |-> 85]>>
\* A valid entry followed by one that cannot be mapped.
BloodPressureMixed == <<[date |-> 2, systolic |-> 110, diastolic |-> 70], RawEntry>>
StepCountMixed == <<[date |-> 2, qty |-> 71, source |-> "watch"], RawEntry>>

\* Two metrics of one specialized type that differ in their data, and one
\* metric of a type without a specialized shape.
MetricUniverse ==
    { [name |-> "blood_pressure", units |-> "mmHg", data |-> BloodPressureA],
      [name |-> "blood_pressure", units |-> "mmHg", data |-> BloodPressureB] }

GenericMetric == [name |-> "step_count", units |-> "count", data |-> StepCountA]

\* Single metrics: a repeated natural key, a name in another letter case
\* with a malformed entry, a generic metric with a malformed entry.
TwiceMetric == [name |-> "blood_pressure", units |-> "mmHg", data |-> BloodPressureTwice]
UpperCaseMetric == [name |-> "Blood_Pressure", units |-> "mmHg", data |-> BloodPressureMixed]
GenericMixedMetric == [name |-> "step_count", units |-> "count", data |-> StepCountMixed]

MetricLists ==
    SeqsUpTo(MetricUniverse, MaxMetrics)
    \cup {<<GenericMetric>>, <<TwiceMetric>>, <<UpperCaseMetric>>, <<GenericMixedMetric>>}

\* A workout without children.
WorkoutUniverse ==
    { [name |-> "Running", start |-> 1, end |-> 2, elevation |-> None,
       total_energy |-> None, heart_rate |-> <<>>, route |-> <<>>] }

\* Two workouts with one natural key (name, start) that differ in every
\* other field, each with a value, heart rate points and a route.
CyclingFirst ==
    [name |-> "Cycling", start |-> 1, end |-> 2, elevation |-> None,
     total_energy |-> [qty |-> 300, units |-> "kcal"],
     heart_rate |-> <<[date |-> 1, qty |-> 60, units |-> "bpm"]>>,
     route |-> <<[lat |-> 1, lon |-> 1, altitude |-> 1, timestamp |-> 1]>>]
CyclingSecond ==
    [name |-> "Cycling", start |-> 1, end |-> 3,
     elevation |-> [ascent |-> 5, descent |-> 4, units |-> "m"],
     total_energy |-> [qty |-> 400, units |-> "kcal"],
     heart_rate |-> <<[date |-> 1, qty |-> 70, units |-> "bpm"],
                      [date |-> 2, qty |-> 71, units |-> "bpm"]>>,
     route |-> <<[lat |-> 2, lon |-> 2, altitude |-> 2, timestamp |-> 1],
                 [lat |-> 3, lon |-> 3, altitude |-> 3, timestamp |-> 2]>>]

Payloads ==
    { [metrics |-> ms, workouts |-> ws] :
        ms \in MetricLists,
        ws \in {<<>>} \cup {<<w>> : w \in WorkoutUniverse} }
    \cup { [metrics |-> <<>>, workouts |-> <<CyclingFirst, CyclingSecond>>] }

(***************************************************************************)
(* Fingerprints.  json.dumps(sort_keys=True) gives one canonical string    *)
(* per content (a record here has no key order), and the digest is taken   *)
(* to be collision free on these strings.                                  *)
(***************************************************************************)
generate_payload_hash(payload_data) == <<"sha256", payload_data>>

generate_metric_hash(metric_name, metric_data) ==
    <<"md5", [name |-> metric_name, data |-> metric_data]>>

(***************************************************************************)
(* The store.  db holds the committed rows of each table; a session holds  *)
(* the rows its open transaction has written (ins) and the state of that   *)
(* transaction:                                                            *)
(*   active  statements execute                                            *)
(*   failed  a statement raised: PostgreSQL rejects every later statement  *)
(*           of the transaction, and COMMIT ends it as a ROLLBACK          *)
(*   closed  the session has ended                                         *)
(* A storage fault inside the loops is a rejected statement; a connection  *)
(* that is lost there shows as the same rejected statements followed by a  *)
(* commit that raises.                                                     *)
(***************************************************************************)
\* call is the last direct call of a data writer (see WriterSpec); the
\* requests leave it alone.
VARIABLES db, session, pc, run, result, call

vars == <<db, session, pc, run, result, call>>

NoCall == [op |-> "none"]

Tables == {"health_payload", "health_metric", "quantity_timestamp",
           "blood_pressure", "workout", "workout_value", "workout_point",
           "workout_route_point"}

EmptyTables == [t \in Tables |-> {}]

NewSession(r) == [owner |-> r, state |-> "active", ins |-> EmptyTables, n |-> 0]

\* READ COMMITTED: a statement sees the committed rows and the rows of its
\* own transaction.
View(S) == [t \in Tables |-> db[t] \cup S.ins[t]]

Usable(S) == S.state = "active"

\* The session after a statement raised.
Failed(S) == [S EXCEPT !.state = "failed"]

\* now(): the start time of the session's transaction.
now(S) == <<"now", S.owner>>

\* uuid4(): the k-th id generated by the call of request r.
uuid4(S) == <<S.owner, S.n + 1>>
Owner(id) == id[1]

NoFault == [item |-> 0, stage |-> "none"]

(***************************************************************************)
(* Uniqueness constraints of the tables (app/db/models.py): the rows that  *)
(* collide with a proposed row.                                            *)
(***************************************************************************)
\* Variant: the table without the constraint.
no_uq_health_payload_hash(rows, payload_hash) == {}

uq_health_payload_hash(rows, payload_hash) ==
    {p \in rows : p.payload_hash = payload_hash}

\* Variant: the lookup of a metric is not scoped by its payload.
uq_health_metric_data_any_payload(rows, payload_id, name, data_hash) ==
    {m \in rows : m.name = name /\ m.data_hash = data_hash}

uq_health_metric_data(rows, payload_id, name, data_hash) ==
    {m \in rows : m.payload_id = payload_id /\ m.name = name /\ m.data_hash = data_hash}

uq_health_metric_payload_name(rows, payload_id, name) ==
    {m \in rows : m.payload_id = payload_id /\ m.name = name}

uq_blood_pressure_metric_date(rows, rec) ==
    {b \in rows : b.metric_id = rec.metric_id /\ b.date = rec.date}

\* NULL sources never collide.
uq_quantity_timestamp_metric_date_source(rows, rec) ==
    {q \in rows : q.metric_id = rec.metric_id /\ q.date = rec.date
                  /\ q.source = rec.source /\ rec.source # "null"}

\* A variant without the unique constraint on (payload_id, name, start).
no_uq_workout_payload_name_start(rows, payload_id, name, start) == {}

uq_workout_payload_name_start(rows, payload_id, name, start) ==
    {x \in rows : x.payload_id = payload_id /\ x.name = name /\ x.start = start}

uq_workout_value_workout_name(rows, rec) ==
    {v \in rows : v.workout_id = rec.workout_id /\ v.name = rec.name}

uq_workout_point_workout_stream_date(rows, rec) ==
    {x \in rows : x.workout_id = rec.workout_id /\ x.stream = rec.stream
                  /\ x.date = rec.date}

uq_workout_route_point_workout_timestamp(rows, rec) ==
    {x \in rows : x.workout_id = rec.workout_id /\ x.timestamp = rec.timestamp}

\* A variant that drops a short last chunk.
RECURSIVE chunked_iterable_full_only(_, _)
chunked_iterable_full_only(records, size) ==
    IF size <= 0 \/ Len(records) < size THEN <<>>
    ELSE <<SubSeq(records, 1, size)>>
         \o chunked_iterable_full_only(SubSeq(records, size + 1, Len(records)), size)

(***************************************************************************)
(* chunked_iterable: islice(it, size) until it returns an empty list.      *)
(***************************************************************************)
RECURSIVE chunked_iterable(_, _)
chunked_iterable(records, size) ==
    IF size <= 0 \/ records = <<>> THEN <<>>
    ELSE LET k == Min(size, Len(records))
         IN <<SubSeq(records, 1, k)>> \o chunked_iterable(SubSeq(records, k + 1, Len(records)), size)

(***************************************************************************)
(* Registry of specialized storage shapes and their conflict handlers      *)
(* (the entries the inputs of this model reach).                           *)
(***************************************************************************)
SPECIALIZED_DB_MODELS(metric_type) ==
    IF metric_type = "blood_pressure" THEN "blood_pressure" ELSE "None"

\* str.lower() on the metric names of this model.
lower(name) == IF name = "Blood_Pressure" THEN "blood_pressure" ELSE name

\* The number of records per statement, from the first record's field
\* count (lines 272-274, 399-403, 534-536, 569-571).  Only the specialized
\* writer keeps it at 1 or more.
quantity_batch_size(records, batch_size_, max_params_) ==
    Min(batch_size_, max_params_ \div Cardinality(DOMAIN records[1]))

specialized_batch_size(records, batch_size_, max_params_) ==
    Max(1, Min(batch_size_, max_params_ \div Cardinality(DOMAIN records[1])))

workout_points_batch_size(records, batch_size_, max_params_) ==
    Min(batch_size_, max_params_ \div Cardinality(DOMAIN records[1]))

route_points_batch_size(records, batch_size_, max_params_) ==
    Min(batch_size_, max_params_ \div Cardinality(DOMAIN records[1]))

\* The chunks a writer executes, one insert statement each, for a
\* non-empty list of built records.
quantity_statements(records, batch_size_, max_params_) ==
    chunked_iterable(records, quantity_batch_size(records, batch_size_, max_params_))

specialized_statements(records, batch_size_, max_params_) ==
    chunked_iterable(records, specialized_batch_size(records, batch_size_, max_params_))

workout_points_statements(records, batch_size_, max_params_) ==
    chunked_iterable(records, workout_points_batch_size(records, batch_size_, max_params_))

route_points_statements(records, batch_size_, max_params_) ==
    chunked_iterable(records, route_points_batch_size(records, batch_size_, max_params_))

\* One INSERT ... ON CONFLICT (metric_id, date) DO UPDATE SET systolic, diastolic
\* of a chunk of blood_pressure records.  PostgreSQL refuses a statement
\* that would update one row twice.
RECURSIVE upsert_blood_pressure(_, _, _)
upsert_blood_pressure(own, committed, chunk) ==
    IF chunk = <<>> THEN own
    ELSE LET rec == Head(chunk)
             hit == uq_blood_pressure_metric_date(own \cup committed, rec)
             own1 == IF hit = {}
                     THEN own \cup {rec}
                     ELSE (own \ hit) \cup
                          {[b EXCEPT !.systolic = rec.systolic, !.diastolic = rec.diastolic] :
                              b \in hit \cap own}
         IN upsert_blood_pressure(own1, committed, Tail(chunk))

SameKeyTwice(chunk) ==
    \E i, j \in 1..Len(chunk) :
        i < j /\ chunk[i].metric_id = chunk[j].metric_id /\ chunk[i].date = chunk[j].date

\* The records of insert_specialized_data_idempotent: model_dump of each
\* entry plus a fresh id and the metric id.
RECURSIVE specialized_records(_, _, _)
specialized_records(data_entries, metric_id, S) ==
    IF data_entries = <<>> THEN <<>>
    ELSE IF ~has_model_dump(Head(data_entries))
    THEN specialized_records(Tail(data_entries), metric_id, S)
    ELSE LET entry == Head(data_entries)
             record == [id |-> uuid4(S), metric_id |-> metric_id, date |-> entry.date,
                        systolic |-> entry.systolic, diastolic |-> entry.diastolic]
         IN <<record>> \o specialized_records(Tail(data_entries), metric_id, [S EXCEPT !.n = @ + 1])

\* The chunk loop: each chunk is one statement; a statement that raises
\* ends the loop with the exception (re-raised at line 423).
RECURSIVE execute_chunks(_, _, _)
execute_chunks(S, chunks, f) ==
    IF chunks = <<>> THEN [S |-> S, ok |-> TRUE]
    ELSE IF ~Usable(S) THEN [S |-> Failed(S), ok |-> FALSE]
    ELSE IF f.stage = "data" THEN [S |-> Failed(S), ok |-> FALSE]
    ELSE IF SameKeyTwice(Head(chunks)) THEN [S |-> Failed(S), ok |-> FALSE]
    ELSE execute_chunks(
            [S EXCEPT !.ins.blood_pressure =
                upsert_blood_pressure(@, db.blood_pressure, Head(chunks))],
            Tail(chunks), f)

\* lines 396-423: the batch size from the parameter ceiling, then the chunks.
insert_specialized_records(S, records, f) ==
    IF records = <<>> THEN [S |-> S, ok |-> TRUE]
    ELSE execute_chunks([S EXCEPT !.n = @ + Len(records)],
                        specialized_statements(records, batch_size, max_params), f)

insert_specialized_data_idempotent(S, data_entries, metric_id, metric_type, f) ==
    IF data_entries = <<>> THEN [S |-> S, ok |-> TRUE]
    ELSE insert_specialized_records(S, specialized_records(data_entries, metric_id, S), f)

\* entry.get_primary_date(): the api QuantityTimestamp defines no such
\* method (only get_date), so building the record raises AttributeError,
\* which the per-entry handler (line 266) turns into a skipped entry.
get_primary_date_raises(entry) == TRUE

RECURSIVE quantity_records(_, _, _)
quantity_records(data_entries, metric_id, S) ==
    IF data_entries = <<>> THEN <<>>
    ELSE LET entry == Head(data_entries)
             record == [id |-> uuid4(S), metric_id |-> metric_id, date |-> entry.date,
                        qty |-> entry.qty, source |-> entry.source]
         IN (IF get_primary_date_raises(entry) THEN <<>> ELSE <<record>>)
            \o quantity_records(Tail(data_entries), metric_id, [S EXCEPT !.n = @ + 1])

\* One INSERT ... ON CONFLICT (metric_id, date, source) DO UPDATE SET qty, id.
RECURSIVE upsert_quantity(_, _, _)
upsert_quantity(own, committed, chunk) ==
    IF chunk = <<>> THEN own
    ELSE LET rec == Head(chunk)
             hit == uq_quantity_timestamp_metric_date_source(own \cup committed, rec)
             own1 == IF hit = {}
                     THEN own \cup {rec}
                     ELSE (own \ hit) \cup
                          {[q EXCEPT !.qty = rec.qty, !.id = rec.id] : q \in hit \cap own}
         IN upsert_quantity(own1, committed, Tail(chunk))

SameQuantityKeyTwice(chunk) ==
    \E i, j \in 1..Len(chunk) :
        i < j /\ uq_quantity_timestamp_metric_date_source({chunk[i]}, chunk[j]) # {}

RECURSIVE execute_quantity_chunks(_, _, _)
execute_quantity_chunks(S, chunks, f) ==
    IF chunks = <<>> THEN [S |-> S, ok |-> TRUE]
    ELSE IF ~Usable(S) THEN [S |-> Failed(S), ok |-> FALSE]
    ELSE IF f.stage = "data" THEN [S |-> Failed(S), ok |-> FALSE]
    ELSE IF SameQuantityKeyTwice(Head(chunks)) THEN [S |-> Failed(S), ok |-> FALSE]
    ELSE execute_quantity_chunks(
            [S EXCEPT !.ins.quantity_timestamp =
                upsert_quantity(@, db.quantity_timestamp, Head(chunks))],
            Tail(chunks), f)

\* lines 269-285: nothing to write when no record was built; else the
\* batch size from the parameter ceiling, then the chunks.
insert_quantity_records(S, records, f) ==
    IF records = <<>> THEN [S |-> S, ok |-> TRUE]
    ELSE execute_quantity_chunks([S EXCEPT !.n = @ + Len(records)],
                                 quantity_statements(records, batch_size, max_params), f)

insert_quantity_data_idempotent(S, data_entries, metric_id, f) ==
    IF data_entries = <<>> THEN [S |-> S, ok |-> TRUE]
    ELSE insert_quantity_records(S, quantity_records(data_entries, metric_id, S), f)

(***************************************************************************)
(* insert_metric_idempotent.  f is the storage fault that strikes this     *)
(* metric: its stage is the statement it strikes (select, insert, data).   *)
(* Every exception raised inside the try block is caught at line 230 and   *)
(* answered with False.                                                    *)
(*   ret   the bool returned                                               *)
(*   why   inserted | duplicate | error                                    *)
(***************************************************************************)
Caught(S) == [S |-> Failed(S), ret |-> FALSE, why |-> "error"]

\* lines 207-232: the data of a new metric row is written; an exception
\* of the data writer is caught like any other.
insert_metric_data(S1, metric, metric_id, f) ==
    IF metric.data = <<>> THEN [S |-> S1, ok |-> TRUE]
    ELSE IF SPECIALIZED_DB_MODELS(lower(metric.name)) = "None"
    THEN insert_quantity_data_idempotent(S1, metric.data, metric_id, f)
    ELSE insert_specialized_data_idempotent(S1, metric.data, metric_id,
                                            lower(metric.name), f)

metric_inserted(written) ==
    IF written.ok THEN [S |-> written.S, ret |-> TRUE, why |-> "inserted"]
    ELSE [S |-> written.S, ret |-> FALSE, why |-> "error"]

insert_metric_idempotent(S, metric, payload_id, f) ==
    LET metric_data_hash == generate_metric_hash(metric.name, metric.data)
        existing_metric ==
            uq_health_metric_data(View(S).health_metric, payload_id, metric.name,
                                  metric_data_hash)
        metric_id == uuid4(S)
        row == [id |-> metric_id, payload_id |-> payload_id, name |-> metric.name,
                units |-> metric.units, data_hash |-> metric_data_hash]
        S1 == [S EXCEPT !.n = @ + 1, !.ins.health_metric = @ \cup {row}]
    IN  IF ~Usable(S) THEN Caught(S)
        ELSE IF f.stage = "select" THEN Caught(S)
        ELSE IF existing_metric # {} THEN [S |-> S, ret |-> FALSE, why |-> "duplicate"]
        ELSE IF f.stage = "insert" THEN Caught(S)
        ELSE IF uq_health_metric_payload_name(View(S).health_metric, payload_id, metric.name) # {}
             THEN Caught(S)
        ELSE metric_inserted(insert_metric_data(S1, metric, metric_id, f))

\* A variant whose conflict clause replaces the whole row.
upsert_workout_replaces_row(own, committed, row) ==
    LET hit == uq_workout_payload_name_start(own \cup committed, row.payload_id,
                                             row.name, row.start)
    IN (own \ hit) \cup {row}

(***************************************************************************)
(* insert_workout_idempotent: the workout row is upserted on               *)
(* (payload_id, name, start); every exception is caught at line 506.       *)
(***************************************************************************)
\* INSERT ... ON CONFLICT (payload_id, name, start) DO UPDATE SET end,
\* elevation (lines 442-446).
upsert_workout(own, committed, row) ==
    LET hit == uq_workout_payload_name_start(own \cup committed, row.payload_id,
                                             row.name, row.start)
    IN IF hit = {} THEN own \cup {row}
       ELSE (own \ hit) \cup {[x EXCEPT !.end = row.end, !.elevation = row.elevation] :
                                  x \in hit \cap own}

\* lines 430-452: the workout row; RETURNING id gives the id of the row
\* that now holds the key.
workout_row(S, workout, payload_id) ==
    LET hit == uq_workout_payload_name_start(View(S).workout, payload_id,
                                             workout.name, workout.start)
        row == [id |-> uuid4(S), payload_id |-> payload_id, name |-> workout.name,
                start |-> workout.start, end |-> workout.end,
                elevation |-> workout.elevation]
    IN [S |-> [S EXCEPT !.n = @ + 1, !.ins.workout = upsert_workout(@, db.workout, row)],
        id |-> IF hit = {} THEN row.id ELSE (CHOOSE x \in hit : TRUE).id,
        ok |-> TRUE]

\* The unique key that the ON CONFLICT clause of a child table names.
uq_child(table, rows, rec) ==
    IF table = "workout_value" THEN uq_workout_value_workout_name(rows, rec)
    ELSE IF table = "workout_point" THEN uq_workout_point_workout_stream_date(rows, rec)
    ELSE uq_workout_route_point_workout_timestamp(rows, rec)

\* A variant whose colliding record replaces the row that holds its key.
RECURSIVE insert_overwrites(_, _, _, _)
insert_overwrites(own, committed, chunk, table) ==
    IF chunk = <<>> THEN own
    ELSE insert_overwrites(
            (own \ uq_child(table, own, Head(chunk))) \cup {Head(chunk)},
            committed, Tail(chunk), table)

\* One INSERT ... ON CONFLICT (key) DO NOTHING of a chunk: a record whose
\* key is held by a row, or by an earlier record of the chunk, is dropped.
RECURSIVE insert_do_nothing(_, _, _, _)
insert_do_nothing(own, committed, chunk, table) ==
    IF chunk = <<>> THEN own
    ELSE insert_do_nothing(
            IF uq_child(table, own \cup committed, Head(chunk)) = {}
            THEN own \cup {Head(chunk)} ELSE own,
            committed, Tail(chunk), table)

\* The statements of one child table.  X is the call so far: its session,
\* the workout id and whether no statement has raised.
RECURSIVE execute_child_chunks(_, _, _, _)
execute_child_chunks(X, table, chunks, struck) ==
    IF chunks = <<>> THEN X
    ELSE IF struck THEN [X EXCEPT !.S = Failed(@), !.ok = FALSE]
    ELSE execute_child_chunks(
            [X EXCEPT !.S.ins[table] = insert_do_nothing(@, db[table], Head(chunks), table)],
            table, Tail(chunks), struck)

\* lines 455-481 (of the fourteen attributes, total_energy)
workout_values(workout, workout_id, S) ==
    IF workout.total_energy = None THEN <<>>
    ELSE <<[id |-> uuid4(S), workout_id |-> workout_id, name |-> "total_energy",
            qty |-> workout.total_energy.qty, units |-> workout.total_energy.units]>>

\* lines 483-486
insert_workout_value_records(X, records, f) ==
    IF records = <<>> THEN X
    ELSE execute_child_chunks([X EXCEPT !.S.n = @ + Len(records)], "workout_value",
                              <<records>>, f.stage = "values")

insert_workout_values(X, workout, f) ==
    IF ~X.ok THEN X
    ELSE insert_workout_value_records(X, workout_values(workout, X.id, X.S), f)

\* lines 521-531
RECURSIVE workout_point_records(_, _, _, _)
workout_point_records(points, workout_id, stream, S) ==
    IF points = <<>> THEN <<>>
    ELSE <<[id |-> uuid4(S), workout_id |-> workout_id, stream |-> stream,
            date |-> Head(points).date, qty |-> Head(points).qty,
            units |-> Head(points).units]>>
         \o workout_point_records(Tail(points), workout_id, stream, [S EXCEPT !.n = @ + 1])

\* lines 533-543
insert_workout_point_records(X, records, f) ==
    execute_child_chunks(
        [X EXCEPT !.S.n = @ + Len(records)], "workout_point",
        workout_points_statements(records, batch_size, max_params),
        f.stage = "points")

insert_workout_points(X, points, stream, f) ==
    IF ~X.ok \/ points = <<>> THEN X
    ELSE insert_workout_point_records(X, workout_point_records(points, X.id, stream, X.S), f)

\* lines 556-566
RECURSIVE route_point_records(_, _, _)
route_point_records(points, workout_id, S) ==
    IF points = <<>> THEN <<>>
    ELSE <<[id |-> uuid4(S), workout_id |-> workout_id, lat |-> Head(points).lat,
            lon |-> Head(points).lon, altitude |-> Head(points).altitude,
            timestamp |-> Head(points).timestamp]>>
         \o route_point_records(Tail(points), workout_id, [S EXCEPT !.n = @ + 1])

\* lines 568-576
insert_route_point_records(X, records, f) ==
    execute_child_chunks(
        [X EXCEPT !.S.n = @ + Len(records)], "workout_route_point",
        route_points_statements(records, batch_size, max_params),
        f.stage = "route")

insert_route_points(X, points, f) ==
    IF ~X.ok \/ points = <<>> THEN X
    ELSE insert_route_point_records(X, route_point_records(points, X.id, X.S), f)

insert_workout_idempotent(S, workout, payload_id, f) ==
    IF ~Usable(S) THEN Failed(S)
    ELSE IF f.stage = "insert" THEN Failed(S)
    ELSE insert_route_points(
            insert_workout_points(
                insert_workout_values(workout_row(S, workout, payload_id), workout, f),
                workout.heart_rate, "heart_rate", f),
            workout.route, f).S

(***************************************************************************)
(* The loops of insert_health_data (lines 123-136).                        *)
(***************************************************************************)
FaultAt(fault, item) == IF fault.item = item THEN fault ELSE NoFault

RemoveAt(seq, i) == SubSeq(seq, 1, i - 1) \o SubSeq(seq, i + 1, Len(seq))

ShiftFault(fault, i) ==
    IF fault.item = i THEN NoFault
    ELSE IF fault.item > i THEN [fault EXCEPT !.item = @ - 1]
    ELSE fault

\* Variant: the two branches exchanged.
tally_swapped(counts, was_processed) ==
    IF was_processed
    THEN [counts EXCEPT !.metrics_skipped = @ + 1]
    ELSE [counts EXCEPT !.metrics_processed = @ + 1]

\* Variant: a metric that was not processed is not counted.
tally_processed_only(counts, was_processed) ==
    IF was_processed
    THEN [counts EXCEPT !.metrics_processed = @ + 1]
    ELSE counts

\* lines 128-131
tally(counts, was_processed) ==
    IF was_processed
    THEN [counts EXCEPT !.metrics_processed = @ + 1]
    ELSE [counts EXCEPT !.metrics_skipped = @ + 1]

\* The metric loop from metric i on.  outcomes records, per metric, what
\* insert_metric_idempotent returned, whether the fault struck it, and
\* the rows it wrote.
Outcome(S, o, struck) ==
    [ret |-> o.ret, why |-> o.why, struck |-> struck /\ Usable(S),
     metric_ids |-> {m.id : m \in o.S.ins.health_metric \ S.ins.health_metric},
     data_ids |->
         {b.id : b \in o.S.ins.blood_pressure \ S.ins.blood_pressure}
         \cup {q.id : q \in o.S.ins.quantity_timestamp \ S.ins.quantity_timestamp},
     data_changed |->
         \/ o.S.ins.blood_pressure # S.ins.blood_pressure
         \/ o.S.ins.quantity_timestamp # S.ins.quantity_timestamp]

RECURSIVE process_metrics(_, _, _, _, _, _, _)
\* lines 128-131 for metric i, whose call returned o; then the next metric.
count_metric(S, metrics, i, payload_id, fault, counts, outcomes, o) ==
    process_metrics(o.S, metrics, i + 1, payload_id, fault, tally(counts, o.ret),
                    Append(outcomes, Outcome(S, o, FaultAt(fault, i) # NoFault)))

process_metrics(S, metrics, i, payload_id, fault, counts, outcomes) ==
    IF i > Len(metrics) THEN [S |-> S, counts |-> counts, outcomes |-> outcomes]
    ELSE count_metric(S, metrics, i, payload_id, fault, counts, outcomes,
                      insert_metric_idempotent(S, metrics[i], payload_id, FaultAt(fault, i)))

\* A variant whose loop ends at the first workout that failed.
RECURSIVE process_workouts_until_failure(_, _, _, _, _, _, _)
process_workouts_until_failure(S, workouts, k, payload_id, fault, offset, attempted) ==
    IF k > Len(workouts) \/ ~Usable(S) THEN [S |-> S, attempted |-> attempted]
    ELSE process_workouts_until_failure(
            insert_workout_idempotent(S, workouts[k], payload_id, FaultAt(fault, offset + k)),
            workouts, k + 1, payload_id, fault, offset, Append(attempted, Usable(S)))

\* attempted records, per workout, whether insert_workout_idempotent was
\* called with a transaction that still executed statements.
RECURSIVE process_workouts(_, _, _, _, _, _, _)
process_workouts(S, workouts, k, payload_id, fault, offset, attempted) ==
    IF k > Len(workouts) THEN [S |-> S, attempted |-> attempted]
    ELSE process_workouts(
            insert_workout_idempotent(S, workouts[k], payload_id, FaultAt(fault, offset + k)),
            workouts, k + 1, payload_id, fault, offset, Append(attempted, Usable(S)))

(***************************************************************************)
(* The storage calls of a run in the order they are awaited.  Each call is *)
(* one db.execute: its statement, its table and the item it belongs to     *)
(* (0 for the payload, i for metric i, Len(metrics) + k for workout k).    *)
(* A call that raises is issued all the same; the calls after it in the    *)
(* same try block are not.                                                 *)
(***************************************************************************)
StorageCall(op, table, item) == [op |-> op, table |-> table, item |-> item]

\* The chunk loops (lines 276-285, 405-423, 538-543, 572-576): one call per
\* chunk up to and including the first one that raises; refused holds the
\* positions of the chunks the store refuses.
chunk_calls(table, item, chunks, refused) ==
    LET issued == IF refused = {} THEN Len(chunks)
                  ELSE CHOOSE k \in refused : \A j \in refused : k <= j
    IN [k \in 1..issued |-> StorageCall("insert", table, item)]

Struck(chunks, struck, Refuses(_)) ==
    {k \in 1..Len(chunks) : struck \/ Refuses(chunks[k])}

\* lines 241-285
quantity_data_calls(records, item, f) ==
    IF records = <<>> THEN <<>>
    ELSE chunk_calls("quantity_timestamp", item,
                     quantity_statements(records, batch_size, max_params),
                     Struck(quantity_statements(records, batch_size, max_params),
                            f.stage = "data", SameQuantityKeyTwice))

\* lines 288-423
specialized_data_calls(records, table, item, f) ==
    IF records = <<>> THEN <<>>
    ELSE chunk_calls(table, item,
                     specialized_statements(records, batch_size, max_params),
                     Struck(specialized_statements(records, batch_size, max_params),
                            f.stage = "data", SameKeyTwice))

\* lines 207-217
metric_data_calls(S, metric, item, f) ==
    IF metric.data = <<>> THEN <<>>
    ELSE IF SPECIALIZED_DB_MODELS(lower(metric.name)) = "None"
    THEN quantity_data_calls(quantity_records(metric.data, uuid4(S), S), item, f)
    ELSE specialized_data_calls(specialized_records(metric.data, uuid4(S), S),
                                SPECIALIZED_DB_MODELS(lower(metric.name)), item, f)

\* insert_metric_idempotent, lines 180-232: the lookup, then the metric
\* insert unless the lookup raised or found the metric, then the data
\* chunks unless the insert raised.
metric_calls(S, metric, payload_id, f, item) ==
    <<StorageCall("select", "health_metric", item)>>
    \o (IF \/ ~Usable(S)
           \/ f.stage = "select"
           \/ uq_health_metric_data(View(S).health_metric, payload_id, metric.name,
                                    generate_metric_hash(metric.name, metric.data)) # {}
        THEN <<>>
        ELSE <<StorageCall("insert", "health_metric", item)>>
             \o (IF \/ f.stage = "insert"
                    \/ uq_health_metric_payload_name(View(S).health_metric, payload_id,
                                                     metric.name) # {}
                 THEN <<>>
                 ELSE metric_data_calls(S, metric, item, f)))

\* lines 533-543 and 568-576 for one child table of a workout.
points_calls(table, item, chunks, struck) ==
    chunk_calls(table, item, chunks, IF struck THEN 1..Len(chunks) ELSE {})

workout_points_calls(S, workout, item, f) ==
    IF workout.heart_rate = <<>> THEN <<>>
    ELSE points_calls("workout_point", item,
                      workout_points_statements(
                          workout_point_records(workout.heart_rate, uuid4(S), "heart_rate", S),
                          batch_size, max_params),
                      f.stage = "points")

workout_route_calls(S, workout, item, f) ==
    IF workout.route = <<>> THEN <<>>
    ELSE points_calls("workout_route_point", item,
                      route_points_statements(
                          route_point_records(workout.route, uuid4(S), S),
                          batch_size, max_params),
                      f.stage = "route")

\* lines 483-486: one statement for all values of the workout.
workout_values_calls(workout, item) ==
    IF workout.total_energy = None THEN <<>>
    ELSE <<StorageCall("insert", "workout_value", item)>>

\* insert_workout_idempotent, lines 429-507: the workout row, its values,
\* its heart rate points, its route; the first call that raises ends it.
workout_calls(S, workout, f, item) ==
    <<StorageCall("insert", "workout", item)>>
    \o (IF ~Usable(S) \/ f.stage = "insert" THEN <<>>
        ELSE workout_values_calls(workout, item)
             \o (IF workout.total_energy # None /\ f.stage = "values" THEN <<>>
                 ELSE workout_points_calls(S, workout, item, f)
                      \o (IF workout_points_calls(S, workout, item, f) # <<>>
                             /\ f.stage = "points"
                          THEN <<>>
                          ELSE workout_route_calls(S, workout, item, f))))

\* Variant: the metrics taken from the last to the first.
RECURSIVE metric_loop_calls_reversed(_, _, _, _, _)
metric_loop_calls_reversed(S, metrics, i, payload_id, fault) ==
    IF i > Len(metrics) THEN <<>>
    ELSE metric_loop_calls_reversed(
             insert_metric_idempotent(S, metrics[i], payload_id, FaultAt(fault, i)).S,
             metrics, i + 1, payload_id, fault)
         \o metric_calls(S, metrics[i], payload_id, FaultAt(fault, i), i)

\* lines 124-131: the calls of metric i, then those of the metrics after it.
RECURSIVE metric_loop_calls(_, _, _, _, _)
metric_loop_calls(S, metrics, i, payload_id, fault) ==
    IF i > Len(metrics) THEN <<>>
    ELSE metric_calls(S, metrics[i], payload_id, FaultAt(fault, i), i)
         \o metric_loop_calls(
                insert_metric_idempotent(S, metrics[i], payload_id, FaultAt(fault, i)).S,
                metrics, i + 1, payload_id, fault)

\* lines 134-136
RECURSIVE workout_loop_calls(_, _, _, _, _, _)
workout_loop_calls(S, workouts, k, payload_id, fault, offset) ==
    IF k > Len(workouts) THEN <<>>
    ELSE workout_calls(S, workouts[k], FaultAt(fault, offset + k), offset + k)
         \o workout_loop_calls(
                insert_workout_idempotent(S, workouts[k], payload_id,
                                          FaultAt(fault, offset + k)),
                workouts, k + 1, payload_id, fault, offset)

\* lines 123-136: the metric loop, then the workout loop; m is what the
\* metric loop left.
loop_calls(S, payload, payload_id, fault, m) ==
    metric_loop_calls(S, payload.metrics, 1, payload_id, fault)
    \o workout_loop_calls(m.S, payload.workouts, 1, payload_id, fault,
                          Len(payload.metrics))

\* Variant: the skipped count ignored.
final_status_always_success(metrics_skipped) == "success"

\* line 138
final_status(metrics_skipped) ==
    IF metrics_skipped = 0 THEN "success" ELSE "partial_success"

\* Variant: the skipped count left at its initial value.
duplicate_result_no_skipped(existing_payload_id, payload) ==
    [status |-> "duplicate", payload_id |-> existing_payload_id,
     metrics_processed |-> 0, metrics_skipped |-> 0]

\* lines 85-91 and 115-121
duplicate_result(existing_payload_id, payload) ==
    [status |-> "duplicate", payload_id |-> existing_payload_id,
     metrics_processed |-> 0, metrics_skipped |-> Len(payload.metrics)]

\* lines 147-153
processed_result(status, actual_payload_id, counts) ==
    [status |-> status, payload_id |-> actual_payload_id,
     metrics_processed |-> counts.metrics_processed,
     metrics_skipped |-> counts.metrics_skipped]

NoResult == [status |-> "none", payload_id |-> None,
             metrics_processed |-> 0, metrics_skipped |-> 0]

(***************************************************************************)
(* Session and transaction end.                                            *)
(***************************************************************************)
\* Variant: COMMIT stores what a failed transaction wrote before it failed.
commit_keeps_failed(committed, S) ==
    [t \in Tables |-> committed[t] \cup S.ins[t]]

\* db.commit(), line 145: the rows of an active transaction become
\* committed; COMMIT of a failed transaction is answered with ROLLBACK.
commit(committed, S) ==
    IF S.state = "active"
    THEN [t \in Tables |-> committed[t] \cup S.ins[t]]
    ELSE committed

\* Variant: the written rows are kept when the call fails.
rollback_keeps_written(committed, S) ==
    [t \in Tables |-> committed[t] \cup S.ins[t]]

\* db.rollback(), line 157, and the end of the session (get_db): the rows
\* of the transaction are discarded.
rollback(committed, S) == committed

Closed(S) == [S EXCEPT !.state = "closed", !.ins = EmptyTables, !.n = 0]

\* check_payload_exists, lines 51-58
check_payload_exists(payload_hash, S) ==
    LET found == {p \in View(S).health_payload : p.payload_hash = payload_hash}
    IN IF found = {} THEN None ELSE (CHOOSE p \in found : TRUE).id

\* Variant: the row lock outlives the transaction that took it.
WaitsForPayloadHash_lock_never_released(r, payload_hash) ==
    \E r2 \in Requests \ {r} :
        run[r2].admitted /\ run[r2].payload_hash = payload_hash

\* An INSERT on health_payload waits while another open transaction holds
\* an uncommitted row with the same payload_hash.
WaitsForPayloadHash(r, payload_hash) ==
    \E r2 \in Requests \ {r} :
        uq_health_payload_hash(session[r2].ins.health_payload, payload_hash) # {}

\* Requests are interchangeable: they are named in the order they arrive.
Before(r1, r2) == r1 = "r1" /\ r2 = "r2"

Terminal(r) == pc[r] \in {"done", "raised"}

NoCounts == [metrics_processed |-> 0, metrics_skipped |-> 0]

ProcessFaults(payload) ==
    {NoFault}
    \cup [item : 1..Len(payload.metrics), stage : {"select", "insert", "data"}]
    \cup [item : (Len(payload.metrics) + 1)..(Len(payload.metrics) + Len(payload.workouts)),
          stage : {"insert", "values", "points", "route"}]

EmptyPayload == [metrics |-> <<>>, workouts |-> <<>>]

\* Observation only: the calls that end the transaction.  db.commit(), line
\* 145, is recorded with the metrics counted and the workouts attempted by
\* then; db.rollback(), line 157.
commit_call(counts, attempted) ==
    [op |-> "commit", metrics |-> counts.metrics_processed + counts.metrics_skipped,
     workouts |-> Len(attempted)]
rollback_call == [op |-> "rollback", metrics |-> 0, workouts |-> 0]

NoRun == [payload |-> EmptyPayload, payload_hash |-> generate_payload_hash(EmptyPayload),
          payload_id |-> None, admitted |-> FALSE, pre |-> {}, after |-> {},
          counts |-> NoCounts, outcomes |-> <<>>, attempted |-> <<>>,
          state_at_commit |-> "none", faulted |-> FALSE,
          first_failed |-> 0, without_failed |-> <<>>, calls |-> <<>>,
          actual_payload_id |-> None, pending |-> None, txn |-> <<>>]

Init ==
    /\ db = EmptyTables
    /\ session = [r \in Requests |-> Closed(NewSession(r))]
    /\ pc = [r \in Requests |-> "start"]
    /\ run = [r \in Requests |-> NoRun]
    /\ result = [r \in Requests |-> NoResult]
    /\ call = NoCall

\* Observation only: what the loops of a run are about to do from session
\* S on (no storage fault): the counts, the outcome of each metric, and
\* the rows and the state of the transaction at the commit.
LoopsLeave(m, w) ==
    [counts |-> m.counts, outcomes |-> m.outcomes, attempted |-> w.attempted,
     ins |-> w.S.ins, state |-> w.S.state]

WorkoutsLeave(payload, payload_id, m) ==
    LoopsLeave(m, process_workouts(m.S, payload.workouts, 1, payload_id,
                                   NoFault, Len(payload.metrics), <<>>))

Pending(S, payload, payload_id) ==
    WorkoutsLeave(payload, payload_id,
                  process_metrics(S, payload.metrics, 1, payload_id, NoFault,
                                  NoCounts, <<>>))

\* The session of a run once its payload row is inserted under the id it
\* generated (lines 97-109).
AdmittedSession(S, payload_hash) ==
    [S EXCEPT !.n = @ + 1,
              !.ins.health_payload =
                  @ \cup {[id |-> uuid4(S), payload_hash |-> payload_hash,
                           received_at |-> now(S)]}]

(***************************************************************************)
(* insert_health_data up to the existence check (lines 76-91).  A fault of *)
(* the lookup propagates: it is raised before the try block.               *)
(***************************************************************************)
Submit(r, payload, fault) ==
    /\ pc[r] = "start"
    /\ \A r2 \in Requests : Before(r2, r) => pc[r2] # "start"
    /\ LET S == NewSession(r)
           payload_hash == generate_payload_hash(payload)
           existing_payload_id == check_payload_exists(payload_hash, S)
           started == [NoRun EXCEPT
                          !.payload = payload,
                          !.payload_hash = payload_hash,
                          !.pre = {p.id : p \in {q \in db.health_payload :
                                                    q.payload_hash = payload_hash}},
                          !.after = {r2 \in Requests : Terminal(r2)},
                          !.calls = <<StorageCall("select", "health_payload", 0)>>,
                          !.pending = IF fault = "conn" \/ existing_payload_id # None
                                      THEN None
                                      ELSE Pending(AdmittedSession(S, payload_hash),
                                                   payload, uuid4(S))]
       IN /\ run' = [run EXCEPT ![r] = started]
          /\ IF fault = "conn"
             THEN /\ pc' = [pc EXCEPT ![r] = "raised"]
                  /\ session' = [session EXCEPT ![r] = Closed(S)]
                  /\ UNCHANGED result
             ELSE IF existing_payload_id # None
             THEN /\ pc' = [pc EXCEPT ![r] = "done"]
                  /\ session' = [session EXCEPT ![r] = Closed(S)]
                  /\ result' = [result EXCEPT ![r] =
                                    duplicate_result(existing_payload_id, payload)]
             ELSE /\ pc' = [pc EXCEPT ![r] = "insert_payload"]
                  /\ session' = [session EXCEPT ![r] = S]
                  /\ UNCHANGED result
    /\ UNCHANGED <<db, call>>

(***************************************************************************)
(* The payload insert (lines 97-121): INSERT ... ON CONFLICT (payload_hash)*)
(* DO UPDATE SET received_at RETURNING id.  On a collision the existing    *)
(* row's id comes back, the call returns 'duplicate' without commit, and   *)
(* the session's end discards the update.  A fault is raised inside the    *)
(* try block: rollback, then re-raise.                                     *)
(***************************************************************************)
\* Variant: the returned id is never compared.
inserted_by_another_ignored(actual_payload_id, payload_id) == FALSE

\* line 113: the id that came back is not the one this run generated.
inserted_by_another(actual_payload_id, payload_id) == actual_payload_id # payload_id

InsertPayload(r, fault) ==
    /\ pc[r] = "insert_payload"
    /\ UNCHANGED call
    /\ ~WaitsForPayloadHash(r, run[r].payload_hash)
    /\ LET S == session[r]
           payload_id == uuid4(S)
           S0 == [S EXCEPT !.n = @ + 1]
           hit == uq_health_payload_hash(db.health_payload, run[r].payload_hash)
           row == [id |-> payload_id, payload_hash |-> run[r].payload_hash,
                   received_at |-> now(S)]
           actual_payload_id == IF hit = {} THEN payload_id
                                ELSE (CHOOSE p \in hit : TRUE).id
       IN IF fault # "none"
          THEN /\ pc' = [pc EXCEPT ![r] = "raised"]
               /\ session' = [session EXCEPT ![r] = Closed(S0)]
               /\ db' = rollback(db, S0)
               /\ run' = [run EXCEPT ![r].payload_id = payload_id,
                                     ![r].txn = <<rollback_call>>,
                                     ![r].calls = Append(@, StorageCall("insert", "health_payload", 0))]
               /\ UNCHANGED result
          ELSE IF inserted_by_another(actual_payload_id, payload_id)
          THEN /\ pc' = [pc EXCEPT ![r] = "done"]
               /\ session' = [session EXCEPT ![r] = Closed(S0)]
               /\ db' = rollback(db, [S0 EXCEPT !.ins.health_payload =
                                         {[p EXCEPT !.received_at = now(S)] : p \in hit}])
               /\ run' = [run EXCEPT ![r].payload_id = payload_id,
                                     ![r].actual_payload_id = actual_payload_id,
                                     ![r].calls = Append(@, StorageCall("insert", "health_payload", 0))]
               /\ result' = [result EXCEPT ![r] =
                                 duplicate_result(actual_payload_id, run[r].payload)]
          ELSE /\ pc' = [pc EXCEPT ![r] = "process"]
               /\ session' = [session EXCEPT ![r] =
                                  [S0 EXCEPT !.ins.health_payload = @ \cup {row}]]
               /\ run' = [run EXCEPT ![r].payload_id = payload_id, ![r].admitted = TRUE,
                                     ![r].actual_payload_id = actual_payload_id,
                                     ![r].calls = Append(@, StorageCall("insert", "health_payload", 0))]
               /\ UNCHANGED <<db, result>>

(***************************************************************************)
(* The metric loop, the workout loop, the status, the commit and the       *)
(* return (lines 123-158).  fault is the storage fault that strikes one    *)
(* statement of the loops, commit_fault the one that strikes the commit.   *)
(* A commit that raises (the connection is lost): rollback, then re-raise. *)
(***************************************************************************)
\* Observation only: the first metric that failed, and what the loop
\* returns for the other metrics when that one is absent from the list.
FirstFailed(outcomes) ==
    LET failed == {j \in 1..Len(outcomes) : outcomes[j].why = "error"}
    IN IF failed = {} THEN 0 ELSE CHOOSE j \in failed : \A k \in failed : j <= k

Returns(outcomes) == [j \in 1..Len(outcomes) |-> outcomes[j].ret]

WithoutFailed(S0, metrics, payload_id, fault, first_failed) ==
    IF first_failed = 0 THEN <<>>
    ELSE Returns(process_metrics(S0, RemoveAt(metrics, first_failed), 1, payload_id,
                                 ShiftFault(fault, first_failed), NoCounts, <<>>).outcomes)

\* lines 138-153 once both loops have run: m is what the metric loop left,
\* w what the workout loop left.
finish(r, fault, commit_fault, m, w) ==
    /\ session' = [session EXCEPT ![r] = Closed(w.S)]
    /\ UNCHANGED call
    /\ IF commit_fault = "conn"
       THEN /\ pc' = [pc EXCEPT ![r] = "raised"]
            /\ db' = rollback(db, w.S)
            /\ run' = [run EXCEPT ![r].calls =
                                      @ \o loop_calls(session[r], run[r].payload,
                                                      run[r].payload_id, fault, m),
                                  ![r].txn = <<commit_call(m.counts, w.attempted),
                                               rollback_call>>]
            /\ UNCHANGED result
       ELSE /\ pc' = [pc EXCEPT ![r] = "done"]
            /\ db' = commit(db, w.S)
            /\ run' = [run EXCEPT ![r].calls =
                                      @ \o loop_calls(session[r], run[r].payload,
                                                      run[r].payload_id, fault, m),
                                  ![r].txn = <<commit_call(m.counts, w.attempted)>>,
                                  ![r].counts = m.counts,
                                  ![r].outcomes = m.outcomes,
                                  ![r].attempted = w.attempted,
                                  ![r].state_at_commit = w.S.state,
                                  ![r].faulted = (fault # NoFault),
                                  ![r].first_failed = FirstFailed(m.outcomes),
                                  ![r].without_failed =
                                      WithoutFailed(session[r], run[r].payload.metrics,
                                                    run[r].payload_id, fault,
                                                    FirstFailed(m.outcomes))]
            /\ result' = [result EXCEPT ![r] =
                              processed_result(final_status(m.counts.metrics_skipped),
                                               run[r].payload_id, m.counts)]

\* lines 133-136 after the metric loop left m.
workouts_then_finish(r, fault, commit_fault, m) ==
    finish(r, fault, commit_fault, m,
           process_workouts(m.S, run[r].payload.workouts, 1, run[r].payload_id,
                            fault, Len(run[r].payload.metrics), <<>>))

Process(r, fault, commit_fault) ==
    /\ pc[r] = "process"
    /\ workouts_then_finish(r, fault, commit_fault,
                            process_metrics(session[r], run[r].payload.metrics, 1,
                                            run[r].payload_id, fault, NoCounts, <<>>))

Next ==
    \E r \in Requests :
        \/ \E payload \in Payloads, fault \in {"none", "conn"} : Submit(r, payload, fault)
        \/ \E fault \in {"none", "conn"} : InsertPayload(r, fault)
        \/ \E fault \in ProcessFaults(run[r].payload), commit_fault \in {"none", "conn"} :
               Process(r, fault, commit_fault)

Spec == Init /\ [][Next]_vars

(***************************************************************************)
(* The same requests, one step per awaited call of the loops, under a      *)
(* store that answers: every call that can execute returns or fails.  A    *)
(* run is at metric NextMetric(r) of its loop, then at workout             *)
(* NextWorkout(r), then at the commit; stage is the statement of the call  *)
(* that a storage fault strikes.  The arrival of a request is left to the  *)
(* clients.                                                                *)
(***************************************************************************)
\* The payloads of these runs: two metrics of one name with a workout
\* without children, and a generic metric with a workout that has a heart
\* rate point.
SubmittedPayloads ==
    { [metrics |-> <<[name |-> "blood_pressure", units |-> "mmHg", data |-> BloodPressureA],
                     [name |-> "blood_pressure", units |-> "mmHg", data |-> BloodPressureB]>>,
       workouts |-> <<[name |-> "Running", start |-> 1, end |-> 2, elevation |-> None,
                       total_energy |-> None, heart_rate |-> <<>>, route |-> <<>>]>>],
      [metrics |-> <<GenericMetric>>,
       workouts |-> <<[name |-> "Cycling", start |-> 1, end |-> 2, elevation |-> None,
                       total_energy |-> None,
                       heart_rate |-> <<[date |-> 1, qty |-> 60, units |-> "bpm"]>>,
                       route |-> <<>>]>>] }

NextMetric(r) == run[r].counts.metrics_processed + run[r].counts.metrics_skipped + 1

NextWorkout(r) == Len(run[r].attempted) + 1

StruckAt(item, stage) ==
    IF stage = "none" THEN NoFault ELSE [item |-> item, stage |-> stage]

InsertPayloadReturns(r) == \E fault \in {"none", "conn"} : InsertPayload(r, fault)

\* lines 124-131 for one metric; o is what insert_metric_idempotent returned.
metric_returned(r, i, f, o) ==
    /\ session' = [session EXCEPT ![r] = o.S]
    /\ run' = [run EXCEPT
                  ![r].counts = tally(@, o.ret),
                  ![r].calls = @ \o metric_calls(session[r], run[r].payload.metrics[i],
                                                 run[r].payload_id, f, i)]
    /\ UNCHANGED <<db, pc, result, call>>

AwaitMetric(r, stage) ==
    /\ pc[r] = "process"
    /\ NextMetric(r) <= Len(run[r].payload.metrics)
    /\ metric_returned(r, NextMetric(r), StruckAt(NextMetric(r), stage),
                       insert_metric_idempotent(session[r],
                                                run[r].payload.metrics[NextMetric(r)],
                                                run[r].payload_id,
                                                StruckAt(NextMetric(r), stage)))

\* lines 134-136 for one workout.
AwaitWorkout(r, stage) ==
    /\ pc[r] = "process"
    /\ NextMetric(r) > Len(run[r].payload.metrics)
    /\ NextWorkout(r) <= Len(run[r].payload.workouts)
    /\ session' = [session EXCEPT ![r] =
                       insert_workout_idempotent(
                           @, run[r].payload.workouts[NextWorkout(r)], run[r].payload_id,
                           StruckAt(Len(run[r].payload.metrics) + NextWorkout(r), stage))]
    /\ run' = [run EXCEPT
                  ![r].attempted = Append(@, Usable(session[r])),
                  ![r].calls =
                      @ \o workout_calls(
                              session[r], run[r].payload.workouts[NextWorkout(r)],
                              StruckAt(Len(run[r].payload.metrics) + NextWorkout(r), stage),
                              Len(run[r].payload.metrics) + NextWorkout(r))]
    /\ UNCHANGED <<db, pc, result, call>>

\* lines 138-158 once both loops have run.
AwaitCommit(r, commit_fault) ==
    /\ pc[r] = "process"
    /\ NextMetric(r) > Len(run[r].payload.metrics)
    /\ NextWorkout(r) > Len(run[r].payload.workouts)
    /\ session' = [session EXCEPT ![r] = Closed(@)]
    /\ UNCHANGED call
    /\ IF commit_fault = "conn"
       THEN /\ pc' = [pc EXCEPT ![r] = "raised"]
            /\ db' = rollback(db, session[r])
            /\ run' = [run EXCEPT ![r].txn = <<commit_call(run[r].counts, run[r].attempted),
                                               rollback_call>>]
            /\ UNCHANGED result
       ELSE /\ pc' = [pc EXCEPT ![r] = "done"]
            /\ db' = commit(db, session[r])
            /\ run' = [run EXCEPT ![r].state_at_commit = session[r].state,
                                  ![r].txn = <<commit_call(run[r].counts, run[r].attempted)>>]
            /\ result' = [result EXCEPT ![r] =
                              processed_result(
                                  final_status(run[r].counts.metrics_skipped),
                                  run[r].payload_id, run[r].counts)]

\* The steps of run r once it is submitted.
Resumes(r) ==
    \/ InsertPayloadReturns(r)
    \/ \E stage \in {"none", "select", "insert", "data"} : AwaitMetric(r, stage)
    \/ \E stage \in {"none", "insert", "values", "points", "route"} : AwaitWorkout(r, stage)
    \/ \E commit_fault \in {"none", "conn"} : AwaitCommit(r, commit_fault)

FairNext ==
    \E r \in Requests :
        \/ \E payload \in SubmittedPayloads, fault \in {"none", "conn"} :
               Submit(r, payload, fault)
        \/ Resumes(r)

\* Each run is a coroutine that the event loop resumes when the call it
\* awaits has returned or failed.
FairSpec ==
    /\ Init /\ [][FairNext]_vars
    /\ \A r \in Requests : WF_vars(Resumes(r))

(***************************************************************************)
(* The same steps with time and cancellation.  A statement is bounded by   *)
(* the driver's command_timeout (app/db/session.py, line 21); the          *)
(* request_timeout of the settings (app/config.py, line 49) is read by no  *)
(* code, and no call of insert_health_data is wrapped in a timeout.  A     *)
(* cancelled task raises CancelledError at the call it awaits: not an      *)
(* Exception, so no handler of insert_logic.py catches it, and get_db      *)
(* closes the session, which discards the transaction.  call is the clock. *)
(***************************************************************************)
command_timeout == 60
request_timeout == 300
\* The time an awaited statement takes when it is slow.
TickSeconds == 50

\* A payload of two metrics and three workouts.
TimedPayloads ==
    { [metrics |-> <<[name |-> "blood_pressure", units |-> "mmHg", data |-> BloodPressureA],
                     GenericMetric>>,
       workouts |-> <<[name |-> "Running", start |-> 1, end |-> 2, elevation |-> None,
                       total_energy |-> None, heart_rate |-> <<>>, route |-> <<>>],
                      [name |-> "Walking", start |-> 2, end |-> 3, elevation |-> None,
                       total_energy |-> None, heart_rate |-> <<>>, route |-> <<>>],
                      [name |-> "Hiking", start |-> 3, end |-> 4, elevation |-> None,
                       total_energy |-> None, heart_rate |-> <<>>, route |-> <<>>]>>] }

\* Where run r is: the call it awaits.
Position(r) == <<pc[r], NextMetric(r), NextWorkout(r)>>

Awaiting(r) == pc[r] \in {"insert_payload", "process"}

Elapsed(r) == IF call.op = "clock" THEN call.elapsed[r] ELSE 0

\* The time run r has waited for the call it awaits now.
Waited(r) ==
    IF call.op = "clock" /\ call.at[r] = Position(r) THEN call.waited[r] ELSE 0

\* Time passes while run r awaits a statement that has not timed out.
Tick(r) ==
    /\ Awaiting(r)
    /\ Waited(r) + TickSeconds < command_timeout
    /\ call' = [op |-> "clock",
                elapsed |-> [q \in Requests |->
                                IF q = r THEN Elapsed(q) + TickSeconds ELSE Elapsed(q)],
                at |-> [q \in Requests |-> Position(q)],
                waited |-> [q \in Requests |->
                               IF q = r THEN Waited(q) + TickSeconds ELSE Waited(q)]]
    /\ UNCHANGED <<db, session, pc, run, result>>

\* The task of run r is cancelled while it awaits a storage call.
Cancel(r) ==
    /\ Awaiting(r)
    /\ pc' = [pc EXCEPT ![r] = "raised"]
    /\ session' = [session EXCEPT ![r] = Closed(@)]
    /\ db' = rollback(db, session[r])
    /\ result' = [result EXCEPT ![r] = [NoResult EXCEPT !.status = "cancelled"]]
    /\ UNCHANGED <<run, call>>

\* The call that run r awaits returns.
CallReturns(r) ==
    \/ InsertPayload(r, "none")
    \/ AwaitMetric(r, "none")
    \/ AwaitWorkout(r, "none")
    \/ AwaitCommit(r, "none")

\* The statement that run r has waited for is ended by the command timeout:
\* the driver raises TimeoutError, an Exception like every storage fault.
TimedOut(r) ==
    /\ Waited(r) > 0
    /\ \/ InsertPayload(r, "conn")
       \/ AwaitMetric(r, "insert")
       \/ AwaitWorkout(r, "insert")
       \/ AwaitCommit(r, "conn")

TimedNext ==
    \E r \in Requests :
        \/ \E payload \in TimedPayloads : Submit(r, payload, "none")
        \/ CallReturns(r)
        \/ TimedOut(r)
        \/ Tick(r)
        \/ Cancel(r)

TimedSpec == Init /\ [][TimedNext]_vars

(***************************************************************************)
(* delete_payload (app/api/v1/endpoints.py, lines 369-408): the payload is *)
(* looked up by id; a missing one is answered 404; a found one is deleted  *)
(* and the deletion committed.  The relationships cascade the deletion     *)
(* (cascade="all, delete-orphan") and so do the foreign keys (ON DELETE    *)
(* CASCADE): payload -> metric, workout; metric -> data rows; workout ->   *)
(* values, points, route points.  A fault of the lookup or of the commit   *)
(* is answered 500 after a rollback.  call keeps the last deletion.        *)
(***************************************************************************)
\* Variant: only the payload row is deleted (no cascade at all).
cascade_delete_payload_only(rows, payload_id) ==
    [t \in Tables |->
        IF t = "health_payload" THEN {p \in rows[t] : p.id # payload_id}
        ELSE rows[t]]

\* Variant: the deletion stops at the metrics and workouts.
cascade_delete_one_level(rows, payload_id) ==
    [t \in Tables |->
        IF t = "health_payload" THEN {p \in rows[t] : p.id # payload_id}
        ELSE IF t \in {"health_metric", "workout"}
        THEN {x \in rows[t] : x.payload_id # payload_id}
        ELSE rows[t]]

MetricIdsOf(rows, payload_id) ==
    {m.id : m \in {x \in rows.health_metric : x.payload_id = payload_id}}
WorkoutIdsOf(rows, payload_id) ==
    {w.id : w \in {x \in rows.workout : x.payload_id = payload_id}}

cascade_delete(rows, payload_id) ==
    [t \in Tables |->
        IF t = "health_payload" THEN {p \in rows[t] : p.id # payload_id}
        ELSE IF t \in {"health_metric", "workout"}
        THEN {x \in rows[t] : x.payload_id # payload_id}
        ELSE IF t \in {"quantity_timestamp", "blood_pressure"}
        THEN {x \in rows[t] : x.metric_id \notin MetricIdsOf(rows, payload_id)}
        ELSE {x \in rows[t] : x.workout_id \notin WorkoutIdsOf(rows, payload_id)}]

\* The answer of delete_payload.
delete_status(found, fault) ==
    IF fault = "select" THEN 500
    ELSE IF found = {} THEN 404
    ELSE IF fault = "commit" THEN 500
    ELSE 200

Deleted(payload_id, fault, found) ==
    /\ call' = [op |-> "delete_payload", payload_id |-> payload_id, fault |-> fault,
                status_code |-> delete_status(found, fault),
                payload_hash |-> IF found = {} THEN None
                                 ELSE (CHOOSE p \in found : TRUE).payload_hash,
                started |-> {r \in Requests : pc[r] # "start"}]
    /\ db' = IF delete_status(found, fault) = 200 THEN cascade_delete(db, payload_id)
             ELSE db
    /\ UNCHANGED <<session, pc, run, result>>

DeletePayload(payload_id, fault) ==
    Deleted(payload_id, fault, {p \in db.health_payload : p.id = payload_id})

\* The ids a payload row can have, and payloads with rows in every table
\* that is written.
PayloadIds == {<<r, 1>> : r \in Requests}
DeletePayloads ==
    { [metrics |-> <<[name |-> "blood_pressure", units |-> "mmHg", data |-> BloodPressureA]>>,
       workouts |-> <<>>],
      [metrics |-> <<>>, workouts |-> <<CyclingFirst, CyclingSecond>>] }

DeleteNext ==
    \/ \E r \in Requests :
           \/ \E payload \in DeletePayloads, fault \in {"none", "conn"} :
                  Submit(r, payload, fault)
           \/ \E fault \in {"none", "conn"} : InsertPayload(r, fault)
           \/ \E fault \in ProcessFaults(run[r].payload), commit_fault \in {"none", "conn"} :
                  Process(r, fault, commit_fault)
    \/ \E payload_id \in PayloadIds, fault \in {"none", "select", "commit"} :
           DeletePayload(payload_id, fault)

DeleteSpec == Init /\ [][DeleteNext]_vars

(***************************************************************************)
(* insert_health_data_optimized (app/db/batch_operations.py): the lookup,  *)
(* then inside batch_transaction the payload insert, the metric batch and  *)
(* the workout batch; batch_transaction commits when the block returns and *)
(* rolls back and re-raises when it raises.                                *)
(***************************************************************************)
OptimizedPayloads ==
    { [metrics |-> ms, workouts |-> ws] :
        ms \in {<<>>} \cup {<<m>> : m \in MetricUniverse},
        ws \in {<<>>, <<CyclingFirst>>} \cup {<<w>> : w \in WorkoutUniverse} }
    \cup { [metrics |-> <<>>, workouts |-> <<CyclingFirst, CyclingSecond>>] }

\* lines 402-409
optimized_duplicate_result(existing_payload_id, payload) ==
    [status |-> "duplicate", payload_id |-> existing_payload_id,
     metrics_processed |-> 0, metrics_skipped |-> Len(payload.metrics)]

\* INSERT ... ON CONFLICT (payload_hash) DO UPDATE SET received_at
\* RETURNING id: the id that comes back is the one of the row that now
\* holds the payload_hash.
insert_payload_idempotent(S, payload_hash) ==
    LET hit == uq_health_payload_hash(View(S).health_payload, payload_hash)
        row == [id |-> uuid4(S), payload_hash |-> payload_hash, received_at |-> now(S)]
    IN [S |-> [S EXCEPT !.n = @ + 1,
                        !.ins.health_payload =
                            IF hit = {} THEN @ \cup {row}
                            ELSE (@ \ hit) \cup {[p EXCEPT !.received_at = now(S)] : p \in hit}],
        id |-> IF hit = {} THEN row.id ELSE (CHOOSE p \in hit : TRUE).id]

\* insert_metric_batch: the records are built without a statement (lines
\* 86-110); with a record to insert, line 117 reads the names records and
\* batch_size, which the function does not define: NameError.
insert_metric_batch(S, metrics, payload_id) ==
    [S |-> [S EXCEPT !.n = @ + Len(metrics)],
     processed |-> 0, skipped |-> 0,
     raised |-> metrics # <<>>]

\* The records insert_workouts_batch builds (lines 272-352): per workout
\* its row, then its values, its heart rate points and its route points.
RECURSIVE workout_batches(_, _, _, _)
workout_batches(workouts, payload_id, S, B) ==
    IF workouts = <<>> THEN [B EXCEPT !.S = S]
    ELSE LET workout == Head(workouts)
             workout_id == uuid4(S)
             S1 == [S EXCEPT !.n = @ + 1]
             values == workout_values(workout, workout_id, S1)
             S2 == [S1 EXCEPT !.n = @ + Len(values)]
             points == workout_point_records(workout.heart_rate, workout_id,
                                             "heart_rate", S2)
             S3 == [S2 EXCEPT !.n = @ + Len(points)]
             route == route_point_records(workout.route, workout_id, S3)
         IN workout_batches(Tail(workouts), payload_id,
                [S3 EXCEPT !.n = @ + Len(route)],
                [B EXCEPT
                    !.workout = Append(@, [id |-> workout_id, payload_id |-> payload_id,
                                           name |-> workout.name, start |-> workout.start,
                                           end |-> workout.end,
                                           elevation |-> workout.elevation]),
                    !.workout_value = @ \o values,
                    !.workout_point = @ \o points,
                    !.workout_route_point = @ \o route])

\* The rows that hold the conflict key of a record.
batch_conflicts(table, rows, rec) ==
    IF table = "workout"
    THEN uq_workout_payload_name_start(rows, rec.payload_id, rec.name, rec.start)
    ELSE uq_child(table, rows, rec)

\* A record names a workout that is not stored.
ForeignKeyViolation(table, rows, rec) ==
    table # "workout" /\ \A w \in rows.workout : w.id # rec.workout_id

\* _batch_upsert, lines 224-245: one INSERT ... ON CONFLICT (conflict
\* fields) DO UPDATE of every field but the id and the conflict fields per
\* chunk of self.batch_size records.  The statement raises when two of its
\* records hold one key, or when a record breaks a foreign key.
RECURSIVE upsert_chunk(_, _, _)
upsert_chunk(S, table, chunk) ==
    IF chunk = <<>> THEN S
    ELSE LET rec == Head(chunk)
             hit == batch_conflicts(table, View(S)[table], rec)
         IN upsert_chunk(
                [S EXCEPT !.ins[table] =
                     IF hit = {} THEN @ \cup {rec}
                     ELSE (@ \ hit) \cup {[rec EXCEPT !.id = x.id] : x \in hit}],
                table, Tail(chunk))

chunk_raises(S, table, chunk, struck) ==
    \/ struck
    \/ \E i, j \in 1..Len(chunk) :
           i < j /\ batch_conflicts(table, {chunk[i]}, chunk[j]) # {}
    \/ \E i \in 1..Len(chunk) :
           ForeignKeyViolation(table, View(upsert_chunk(S, table, chunk)), chunk[i])

RECURSIVE batch_upsert_chunks(_, _, _, _)
batch_upsert_chunks(X, table, chunks, struck) ==
    IF chunks = <<>> \/ X.raised THEN X
    ELSE batch_upsert_chunks(
            [S |-> IF chunk_raises(X.S, table, Head(chunks), struck) THEN Failed(X.S)
                   ELSE upsert_chunk(X.S, table, Head(chunks)),
             raised |-> chunk_raises(X.S, table, Head(chunks), struck),
             calls |-> Append(X.calls, StorageCall("insert", table, 0))],
            table, Tail(chunks), struck)

batch_upsert(X, table, records, struck) ==
    batch_upsert_chunks(X, table, chunked_iterable(records, batch_size), struck)

\* insert_workouts_batch, lines 262-372: the four upserts in their order;
\* the tables of children are written when there is a record for them.
insert_workouts_batch(S, workouts, payload_id, fault) ==
    IF workouts = <<>> THEN [S |-> S, raised |-> FALSE, calls |-> <<>>]
    ELSE LET B == workout_batches(workouts, payload_id, S,
                      [S |-> S, workout |-> <<>>, workout_value |-> <<>>,
                       workout_point |-> <<>>, workout_route_point |-> <<>>])
         IN batch_upsert(
                batch_upsert(
                    batch_upsert(
                        batch_upsert([S |-> B.S, raised |-> FALSE, calls |-> <<>>],
                                     "workout", B.workout, fault = "workout"),
                        "workout_value", B.workout_value, fault = "workout_value"),
                    "workout_point", B.workout_point, fault = "workout_point"),
                "workout_route_point", B.workout_route_point,
                fault = "workout_route_point")

\* batch_transaction, line 379: the rows written and the rows updated by
\* the transaction become the committed ones.
batch_commit(committed, S) ==
    [t \in Tables |->
        {x \in committed[t] : \A y \in S.ins[t] : y.id # x.id} \cup S.ins[t]]

\* lines 395-412: the fingerprint and the lookup, before batch_transaction.
OptimizedSubmit(r, payload, fault) ==
    /\ pc[r] = "start"
    /\ \A r2 \in Requests : Before(r2, r) => pc[r2] # "start"
    /\ LET S == NewSession(r)
           payload_hash == generate_payload_hash(payload)
           existing_payload_id == check_payload_exists(payload_hash, S)
       IN /\ run' = [run EXCEPT ![r] =
                        [NoRun EXCEPT
                            !.payload = payload,
                            !.payload_hash = payload_hash,
                            !.pre = {p.id : p \in {q \in db.health_payload :
                                                      q.payload_hash = payload_hash}},
                            !.after = {r2 \in Requests : Terminal(r2)},
                            !.faulted = (fault = "conn"),
                            !.calls = <<StorageCall("select", "health_payload", 0)>>]]
          /\ IF fault = "conn"
             THEN /\ pc' = [pc EXCEPT ![r] = "raised"]
                  /\ session' = [session EXCEPT ![r] = Closed(S)]
                  /\ UNCHANGED result
             ELSE IF existing_payload_id # None
             THEN /\ pc' = [pc EXCEPT ![r] = "done"]
                  /\ session' = [session EXCEPT ![r] = Closed(S)]
                  /\ result' = [result EXCEPT ![r] =
                                    optimized_duplicate_result(existing_payload_id, payload)]
             ELSE /\ pc' = [pc EXCEPT ![r] = "insert_payload"]
                  /\ session' = [session EXCEPT ![r] = S]
                  /\ UNCHANGED result
    /\ UNCHANGED <<db, call>>

\* lines 412-414: the payload insert.  The id that comes back is used as
\* it is; a fault is raised inside batch_transaction.
OptimizedInsertPayload(r, fault) ==
    /\ pc[r] = "insert_payload"
    /\ ~WaitsForPayloadHash(r, run[r].payload_hash)
    /\ LET S == session[r]
           P == insert_payload_idempotent(S, run[r].payload_hash)
           called == [run[r] EXCEPT
                         !.payload_id = uuid4(S),
                         !.faulted = (fault # "none"),
                         !.txn = IF fault # "none" THEN <<rollback_call>> ELSE <<>>,
                         !.calls = Append(@, StorageCall("insert", "health_payload", 0))]
       IN IF fault # "none"
          THEN /\ pc' = [pc EXCEPT ![r] = "raised"]
               /\ session' = [session EXCEPT ![r] = Closed(S)]
               /\ db' = rollback(db, S)
               /\ run' = [run EXCEPT ![r] = called]
          ELSE /\ pc' = [pc EXCEPT ![r] = "batches"]
               /\ session' = [session EXCEPT ![r] = P.S]
               /\ db' = db
               /\ run' = [run EXCEPT ![r] = [called EXCEPT !.actual_payload_id = P.id,
                                                          !.admitted = (P.id = uuid4(S))]]
    /\ UNCHANGED <<result, call>>

\* The faults that can strike a statement of the workout batch.
BatchFaults(payload) ==
    {"none"} \cup
    IF payload.metrics # <<>> \/ payload.workouts = <<>> THEN {}
    ELSE {"workout"} \cup {"workout_point" : w \in {x \in {payload.workouts[1]} :
                                                      x.heart_rate # <<>>}}

\* lines 418-438 and 375-382: the metric batch, the workout batch, the
\* status, the return and the end of batch_transaction.
OptimizedBatches(r, fault, commit_fault) ==
    /\ pc[r] = "batches"
    /\ LET payload_id == run[r].actual_payload_id
           m == insert_metric_batch(session[r], run[r].payload.metrics, payload_id)
           w == IF m.raised THEN [S |-> m.S, raised |-> TRUE, calls |-> <<>>]
                ELSE insert_workouts_batch(m.S, run[r].payload.workouts, payload_id, fault)
           raised == w.raised \/ commit_fault = "conn"
       IN /\ session' = [session EXCEPT ![r] = Closed(w.S)]
          /\ run' = [run EXCEPT ![r].calls = @ \o w.calls,
                                ![r].faulted = (fault # "none" \/ commit_fault = "conn"),
                                ![r].txn =
                                    IF w.raised THEN <<rollback_call>>
                                    ELSE IF commit_fault = "conn"
                                    THEN <<[op |-> "commit", metrics |-> 0, workouts |-> 0],
                                           rollback_call>>
                                    ELSE <<[op |-> "commit", metrics |-> 0, workouts |-> 0]>>,
                                ![r].state_at_commit = w.S.state]
          /\ IF raised
             THEN /\ pc' = [pc EXCEPT ![r] = "raised"]
                  /\ db' = rollback(db, w.S)
                  /\ UNCHANGED result
             ELSE /\ pc' = [pc EXCEPT ![r] = "done"]
                  /\ db' = batch_commit(db, w.S)
                  /\ result' = [result EXCEPT ![r] =
                                    processed_result(final_status(m.skipped), payload_id,
                                                     [metrics_processed |-> m.processed,
                                                      metrics_skipped |-> m.skipped])]
    /\ UNCHANGED call

OptimizedNext ==
    \E r \in Requests :
        \/ \E payload \in OptimizedPayloads, fault \in {"none", "conn"} :
               OptimizedSubmit(r, payload, fault)
        \/ \E fault \in {"none", "conn"} : OptimizedInsertPayload(r, fault)
        \/ \E fault \in BatchFaults(run[r].payload), commit_fault \in {"none", "conn"} :
               OptimizedBatches(r, fault, commit_fault)

OptimizedSpec == Init /\ [][OptimizedNext]_vars

(***************************************************************************)
(* The data writers called directly.  insert_health_data always calls them *)
(* with the default batch_size and max_params; called directly they take   *)
(* any positive values.  A call is recorded with the chunks it executes,   *)
(* one insert statement per chunk; each behaviour makes one call.          *)
(***************************************************************************)
\* Longest list of built records handed to a writer.
MaxRecords == 3
\* Largest batch_size argument.
MaxBatch == 3
\* Largest max_params argument.
MaxCeiling == 13

\* Built records of each writer (lines 258-264, 307-323, 522-529, 557-564).
QuantityRecords ==
    {[id |-> <<"w", k>>, metric_id |-> "m", date |-> k, qty |-> 70, source |-> "watch"] :
        k \in 1..2}

\* model_dump(exclude_unset=True) of heart_rate entries: one with the date
\* only, one with avg set as well.
SpecializedRecords ==
    {[id |-> <<"w", 1>>, metric_id |-> "m", date |-> 1],
     [id |-> <<"w", 2>>, metric_id |-> "m", date |-> 2, avg |-> 60]}

WorkoutPointRecords ==
    {[id |-> <<"w", k>>, workout_id |-> "x", stream |-> "heart_rate", date |-> k,
      qty |-> 60, units |-> "bpm"] : k \in 1..2}

RoutePointRecords ==
    {[id |-> <<"w", k>>, workout_id |-> "x", lat |-> 1, lon |-> 1, altitude |-> 1,
      timestamp |-> k] : k \in 1..2}

RecordLists(universe) == SeqsUpTo(universe, MaxRecords) \ {<<>>}

Called(op, records, batch_size_, max_params_, statements) ==
    /\ call = NoCall
    /\ call' = [op |-> op, records |-> records, batch_size |-> batch_size_,
                max_params |-> max_params_, statements |-> statements]
    /\ UNCHANGED <<db, session, pc, run, result>>

WriteQuantity(records, batch_size_, max_params_) ==
    Called("insert_quantity_data_idempotent", records, batch_size_, max_params_,
           quantity_statements(records, batch_size_, max_params_))

WriteSpecialized(records, batch_size_, max_params_) ==
    Called("insert_specialized_data_idempotent", records, batch_size_, max_params_,
           specialized_statements(records, batch_size_, max_params_))

WriteWorkoutPoints(records, batch_size_, max_params_) ==
    Called("insert_workout_points", records, batch_size_, max_params_,
           workout_points_statements(records, batch_size_, max_params_))

WriteRoutePoints(records, batch_size_, max_params_) ==
    Called("insert_route_points", records, batch_size_, max_params_,
           route_points_statements(records, batch_size_, max_params_))

\* BatchProcessor._batch_upsert (batch_operations.py lines 224-245): one
\* statement per chunk of self.batch_size records, whatever the fields of
\* the records are.
BatchProcessor_batch_upsert(records, batch_size_) ==
    chunked_iterable(records, batch_size_)

\* A call of _batch_upsert by a BatchProcessor constructed with batch_size_
\* (lines 23-27), against a store that accepts max_params_ bound values per
\* statement.
BatchUpsert(records, batch_size_, max_params_) ==
    Called("_batch_upsert", records, batch_size_, max_params_,
           BatchProcessor_batch_upsert(records, batch_size_))

\* chunked_iterable on its own, with any size of 1 or more.
Chunk(records, size) ==
    /\ call = NoCall
    /\ call' = [op |-> "chunked_iterable", records |-> records, size |-> size,
                chunks |-> chunked_iterable(records, size)]
    /\ UNCHANGED <<db, session, pc, run, result>>

\* One conflict-aware insert of one record into a table that holds the
\* rows before.
ExistingQuantityRow ==
    [id |-> <<"w", 1>>, metric_id |-> "m", date |-> 1, qty |-> 70, source |-> "watch"]
ExistingBloodPressureRow ==
    [id |-> <<"w", 1>>, metric_id |-> "m", date |-> 1, systolic |-> 120, diastolic |-> 80]
ExistingWorkoutRow ==
    [id |-> <<"w", 1>>, payload_id |-> "p", name |-> "Cycling", start |-> 1,
     end |-> 2, elevation |-> None]

ExistingRow(table) ==
    IF table = "quantity_timestamp" THEN ExistingQuantityRow
    ELSE IF table = "blood_pressure" THEN ExistingBloodPressureRow
    ELSE ExistingWorkoutRow

\* Proposed records: with the key of the existing row or another one; a
\* quantity record may have no source (NULL).
NewQuantityRecords ==
    {[id |-> <<"w", 2>>, metric_id |-> "m", date |-> d, qty |-> 71, source |-> src] :
        d \in 1..2, src \in {"watch", "null"}}
NewBloodPressureRecords ==
    {[id |-> <<"w", 2>>, metric_id |-> "m", date |-> d, systolic |-> 125,
      diastolic |-> 85] : d \in 1..2}
NewWorkoutRecords ==
    {[id |-> <<"w", 2>>, payload_id |-> "p", name |-> "Cycling", start |-> d,
      end |-> 3, elevation |-> [ascent |-> 5, descent |-> 4, units |-> "m"]] :
        d \in 1..2}

NewRecords(table) ==
    IF table = "quantity_timestamp" THEN NewQuantityRecords
    ELSE IF table = "blood_pressure" THEN NewBloodPressureRecords
    ELSE NewWorkoutRecords

upsert(table, own, rec) ==
    IF table = "quantity_timestamp" THEN upsert_quantity(own, {}, <<rec>>)
    ELSE IF table = "blood_pressure" THEN upsert_blood_pressure(own, {}, <<rec>>)
    ELSE upsert_workout(own, {}, rec)

Upsert(table, before, rec) ==
    /\ call = NoCall
    /\ call' = [op |-> "upsert", table |-> table, before |-> before, rec |-> rec,
                after |-> upsert(table, before, rec)]
    /\ UNCHANGED <<db, session, pc, run, result>>

\* receive_health_data from the call of insert_health_data on
\* (endpoints.py lines 170-234).  The call returns a result or raises; a
\* storage fault reaches the endpoint as an IntegrityError or as another
\* SQLAlchemyError (OperationalError), anything else as a plain Exception.
SQLAlchemyErrors == {"IntegrityError", "OperationalError"}
ExceptionClasses == SQLAlchemyErrors \cup {"Exception"}
ResultStatuses == {"duplicate", "success", "partial_success"}
InsertOutcomes ==
    [kind : {"returned"}, status : ResultStatuses, exc : {"none"}]
    \cup [kind : {"raised"}, status : {"none"}, exc : ExceptionClasses]

\* The HTTP status the endpoint answers with.
receive_health_data(outcome) ==
    IF outcome.kind = "raised"
    THEN IF outcome.exc = "IntegrityError" THEN 409
         ELSE IF outcome.exc \in SQLAlchemyErrors THEN 500
         ELSE 500
    ELSE IF outcome.status = "duplicate" THEN 200
    ELSE IF outcome.status \in {"success", "partial_success"} THEN 201
    ELSE 500

Respond(outcome) ==
    /\ call = NoCall
    /\ call' = [op |-> "receive_health_data", outcome |-> outcome,
                status_code |-> receive_health_data(outcome)]
    /\ UNCHANGED <<db, session, pc, run, result>>

(***************************************************************************)
(* The fingerprints as they are computed: json.dumps(value, sort_keys=True,*)
(* default=str), then the digest of the string.  A value is a number or a  *)
(* string (v is its text), a datetime (an object json cannot encode, which *)
(* default=str turns into the string of its text), a list, or a dict whose *)
(* items are kept in the order they were written.  A string is a sequence  *)
(* of tokens; the digests are taken to be collision free.                  *)
(***************************************************************************)
MaxItems == 2

\* The keys in the order of sorted().
KeyOrder == <<"a", "b", "data", "name">>
Keys == {"a", "b"}
Pos(key) == CHOOSE i \in 1..Len(KeyOrder) : KeyOrder[i] = key

Scalars ==
    {[t |-> "num", v |-> "1"], [t |-> "num", v |-> "2"], [t |-> "str", v |-> "1"],
     [t |-> "datetime", v |-> "1"]}

\* Item lists with distinct keys, in every written order.
ItemSeqs(values) ==
    {items \in SeqsUpTo([k : Keys, v : values], Min(MaxItems, Cardinality(Keys))) :
        \A i, j \in 1..Len(items) : i # j => items[i].k # items[j].k}
Dicts(values) == {[t |-> "dict", items |-> items] : items \in ItemSeqs(values)}
Lists(values) == {[t |-> "list", items |-> items] : items \in SeqsUpTo(values, MaxItems)}

\* One dict written in both key orders, one list in both element orders.
One == [t |-> "num", v |-> "1"]
Two == [t |-> "num", v |-> "2"]
InnerDicts ==
    {[t |-> "dict", items |-> <<[k |-> "a", v |-> One], [k |-> "b", v |-> Two]>>],
     [t |-> "dict", items |-> <<[k |-> "b", v |-> Two], [k |-> "a", v |-> One]>>]}
InnerLists ==
    {[t |-> "list", items |-> <<One, Two>>], [t |-> "list", items |-> <<Two, One>>]}
JsonValues ==
    Scalars \cup Dicts(Scalars) \cup Lists({One, Two})
    \cup Dicts(InnerDicts \cup InnerLists) \cup Lists(InnerDicts)
MetricNames == {"x", "y"}

\* Variant: the keys are written in the order of the input.
RECURSIVE json_dumps_unsorted(_), dumps_elements_unsorted(_), dumps_items_unsorted(_)
json_dumps_unsorted(value) ==
    IF value.t = "num" THEN <<value.v>>
    ELSE IF value.t \in {"str", "datetime"} THEN <<"quote", value.v, "quote">>
    ELSE IF value.t = "list" THEN <<"[">> \o dumps_elements_unsorted(value.items) \o <<"]">>
    ELSE <<"{">> \o dumps_items_unsorted(value.items) \o <<"}">>

dumps_elements_unsorted(items) ==
    IF items = <<>> THEN <<>>
    ELSE json_dumps_unsorted(Head(items))
         \o (IF Tail(items) = <<>> THEN <<>> ELSE <<",">>)
         \o dumps_elements_unsorted(Tail(items))

dumps_items_unsorted(items) ==
    IF items = <<>> THEN <<>>
    ELSE <<"quote", Head(items).k, "quote", ":">> \o json_dumps_unsorted(Head(items).v)
         \o (IF Tail(items) = <<>> THEN <<>> ELSE <<",">>)
         \o dumps_items_unsorted(Tail(items))

RECURSIVE json_dumps(_), dumps_elements(_), dumps_items(_)
json_dumps(value) ==
    IF value.t = "num" THEN <<value.v>>
    ELSE IF value.t \in {"str", "datetime"} THEN <<"quote", value.v, "quote">>
    ELSE IF value.t = "list" THEN <<"[">> \o dumps_elements(value.items) \o <<"]">>
    ELSE <<"{">>
         \o dumps_items(SortSeq(value.items, LAMBDA p, q : Pos(p.k) < Pos(q.k)))
         \o <<"}">>

dumps_elements(items) ==
    IF items = <<>> THEN <<>>
    ELSE json_dumps(Head(items))
         \o (IF Tail(items) = <<>> THEN <<>> ELSE <<",">>)
         \o dumps_elements(Tail(items))

dumps_items(items) ==
    IF items = <<>> THEN <<>>
    ELSE <<"quote", Head(items).k, "quote", ":">> \o json_dumps(Head(items).v)
         \o (IF Tail(items) = <<>> THEN <<>> ELSE <<",">>)
         \o dumps_items(Tail(items))

\* json.dumps(..., sort_keys=True, default=str) of the two hash functions.
normalized(value) == json_dumps(value)

sha256(string) == <<"sha256", string>>
md5(string) == <<"md5", string>>

\* BatchProcessor.generate_payload_hash, the same code as
\* generate_payload_hash of insert_logic.py.
BatchProcessor_generate_payload_hash(payload_data) == sha256(normalized(payload_data))

\* {"name": metric_name, "data": metric_data}
metric_hash_input(metric_name, metric_data) ==
    [t |-> "dict", items |-> <<[k |-> "name", v |-> [t |-> "str", v |-> metric_name]],
                               [k |-> "data", v |-> metric_data]>>]

BatchProcessor_generate_metric_hash(metric_name, metric_data) ==
    md5(normalized(metric_hash_input(metric_name, metric_data)))

\* Two calls of one hash function.
HashPayloads(a, b) ==
    /\ call = NoCall
    /\ call' = [op |-> "generate_payload_hash", a |-> a, b |-> b,
                string_a |-> normalized(a), string_b |-> normalized(b),
                digest_a |-> BatchProcessor_generate_payload_hash(a),
                digest_b |-> BatchProcessor_generate_payload_hash(b)]
    /\ UNCHANGED <<db, session, pc, run, result>>

HashMetrics(name_a, data_a, name_b, data_b) ==
    /\ call = NoCall
    /\ call' = [op |-> "generate_metric_hash",
                a |-> metric_hash_input(name_a, data_a),
                b |-> metric_hash_input(name_b, data_b),
                string_a |-> normalized(metric_hash_input(name_a, data_a)),
                string_b |-> normalized(metric_hash_input(name_b, data_b)),
                digest_a |-> BatchProcessor_generate_metric_hash(name_a, data_a),
                digest_b |-> BatchProcessor_generate_metric_hash(name_b, data_b)]
    /\ UNCHANGED <<db, session, pc, run, result>>

(***************************************************************************)
(* The conflict targets of the upserts and the unique constraints that the *)
(* tables declare.  PostgreSQL accepts ON CONFLICT (columns) when a unique *)
(* index of the table has exactly these columns, and rejects the statement *)
(* otherwise (no unique or exclusion constraint matching the ON CONFLICT   *)
(* specification).                                                         *)
(***************************************************************************)
\* SPECIALIZED_DB_MODELS in full (insert_logic.py lines 18-33): the table
\* of each registered metric type.
RegisteredTable ==
    [blood_pressure |-> "blood_pressure", heart_rate |-> "heart_rate",
     sleep_analysis |-> "sleep_analysis", blood_glucose |-> "blood_glucose",
     sexual_activity |-> "sexual_activity", handwashing |-> "hygiene_event",
     toothbrushing |-> "hygiene_event", insulin_delivery |-> "insulin_delivery",
     symptom |-> "symptom", symptoms |-> "symptom", state_of_mind |-> "state_of_mind",
     ecg |-> "ecg", heart_rate_notifications |-> "heart_rate_notification"]

\* index_elements of conflict_handlers (lines 333-394).
conflict_handlers ==
    [handwashing |-> {"metric_id", "date"}, toothbrushing |-> {"metric_id", "date"},
     blood_pressure |-> {"metric_id", "date"},
     heart_rate |-> {"metric_id", "date", "context"},
     heart_rate_notifications |-> {"metric_id", "start", "end"},
     symptom |-> {"metric_id", "start", "name"}, symptoms |-> {"metric_id", "start", "name"},
     state_of_mind |-> {"metric_id", "start", "kind"},
     sleep_analysis |-> {"metric_id", "start_date", "end_date"},
     blood_glucose |-> {"metric_id", "date", "meal_time"},
     sexual_activity |-> {"metric_id", "date"},
     insulin_delivery |-> {"metric_id", "date", "reason"},
     ecg |-> {"metric_id", "start"}]

\* index_elements of the other upserts (lines 105, 279, 444, 485, 541, 575).
other_index_elements ==
    [health_payload |-> {"payload_hash"},
     quantity_timestamp |-> {"metric_id", "date", "source"},
     workout |-> {"payload_id", "name", "start"},
     workout_value |-> {"workout_id", "name"},
     workout_point |-> {"workout_id", "stream", "date"},
     workout_route_point |-> {"workout_id", "timestamp"}]

\* The UniqueConstraint declarations of app/db/models.py, by table.
UniqueConstraints ==
    [health_payload |-> {{"payload_hash"}},
     health_metric |-> {{"payload_id", "name"}, {"payload_id", "name", "data_hash"}},
     quantity_timestamp |-> {{"metric_id", "date", "source"}},
     blood_pressure |-> {{"metric_id", "date"}},
     heart_rate |-> {{"metric_id", "date", "context"}},
     sleep_analysis |-> {{"metric_id", "start_date", "end_date"}},
     blood_glucose |-> {{"metric_id", "date", "meal_time"}},
     sexual_activity |-> {{"metric_id", "date"}},
     hygiene_event |-> {{"metric_id", "date"}},
     insulin_delivery |-> {{"metric_id", "date", "reason"}},
     symptom |-> {{"metric_id", "start", "name"}},
     state_of_mind |-> {},
     ecg |-> {{"metric_id", "start"}},
     heart_rate_notification |-> {{"metric_id", "start", "end"}},
     workout |-> {{"payload_id", "name", "start"}},
     workout_value |-> {{"workout_id", "name"}},
     workout_point |-> {{"workout_id", "stream", "date"}},
     workout_route_point |-> {{"workout_id", "timestamp"}}]

\* The primary key of every table (AppleHealthMixin).
PrimaryKey == {"id"}

\* handler = conflict_handlers.get(metric_type); a type without a handler
\* is inserted without a conflict clause (lines 396, 417-418).
on_conflict(table, index_elements) ==
    IF index_elements \in UniqueConstraints[table] \cup {PrimaryKey}
    THEN "executed" ELSE "ProgrammingError"

\* One upsert statement of a registered metric type, or of another table.
SpecializedUpsert(metric_type) ==
    /\ call = NoCall
    /\ call' = [op |-> "on_conflict", target |-> metric_type,
                table |-> RegisteredTable[metric_type],
                has_handler |-> metric_type \in DOMAIN conflict_handlers,
                index_elements |-> IF metric_type \in DOMAIN conflict_handlers
                                  THEN conflict_handlers[metric_type] ELSE {},
                outcome |-> IF metric_type \in DOMAIN conflict_handlers
                            THEN on_conflict(RegisteredTable[metric_type],
                                             conflict_handlers[metric_type])
                            ELSE "executed"]
    /\ UNCHANGED <<db, session, pc, run, result>>

OtherUpsert(table) ==
    /\ call = NoCall
    /\ call' = [op |-> "on_conflict", target |-> table, table |-> table,
                has_handler |-> TRUE,
                index_elements |-> other_index_elements[table],
                outcome |-> on_conflict(table, other_index_elements[table])]
    /\ UNCHANGED <<db, session, pc, run, result>>

WriterNext ==
    \/ \E records \in RecordLists(QuantityRecords) \cup RecordLists(SpecializedRecords),
          b \in 1..MaxBatch, c \in 1..MaxCeiling :
           BatchUpsert(records, b, c)
    \/ \E metric_type \in DOMAIN RegisteredTable : SpecializedUpsert(metric_type)
    \/ \E table \in DOMAIN other_index_elements : OtherUpsert(table)
    \/ \E a, b \in JsonValues : HashPayloads(a, b)
    \/ \E name_a, name_b \in MetricNames, data_a, data_b \in Lists(InnerDicts) :
           HashMetrics(name_a, data_a, name_b, data_b)
    \/ \E outcome \in InsertOutcomes : Respond(outcome)
    \/ \E records \in RecordLists(QuantityRecords), b \in 1..MaxBatch, c \in 1..MaxCeiling :
           WriteQuantity(records, b, c)
    \/ \E records \in RecordLists(SpecializedRecords), b \in 1..MaxBatch, c \in 1..MaxCeiling :
           WriteSpecialized(records, b, c)
    \/ \E records \in RecordLists(WorkoutPointRecords), b \in 1..MaxBatch, c \in 1..MaxCeiling :
           WriteWorkoutPoints(records, b, c)
    \/ \E records \in RecordLists(RoutePointRecords), b \in 1..MaxBatch, c \in 1..MaxCeiling :
           WriteRoutePoints(records, b, c)
    \/ \E records \in SeqsUpTo(QuantityRecords, MaxRecords), size \in 1..MaxBatch :
           Chunk(records, size)
    \/ \E table \in {"quantity_timestamp", "blood_pressure", "workout"} :
           \E before \in {{}, {ExistingRow(table)}}, rec \in NewRecords(table) :
               Upsert(table, before, rec)

WriterSpec == Init /\ [][WriterNext]_vars

(***************************************************************************)
(* Properties.                                                             *)
(***************************************************************************)
Returned(r) == pc[r] = "done"
Admitted(r) == pc[r] = "done" /\ run[r].admitted
Processed(r) == Admitted(r) /\ result[r].status \in {"success", "partial_success"}
SamePayload(r1, r2) == run[r1].payload = run[r2].payload
\* r2 was called after r1 had ended.
Later(r1, r2) == pc[r2] # "start" /\ r1 \in run[r2].after
\* r1 and r2 ran at the same time.
Concurrent(r1, r2) ==
    /\ r1 # r2 /\ pc[r1] # "start" /\ pc[r2] # "start"
    /\ r1 \notin run[r2].after /\ r2 \notin run[r1].after
OwnsNoRow(r) == \A t \in Tables : \A x \in db[t] : Owner(x.id) # r
PayloadRows(payload_hash) == {p \in db.health_payload : p.payload_hash = payload_hash}
SameMetric(m1, m2) == m1.name = m2.name /\ m1.data = m2.data
MetricRows(payload_id, metric) ==
    {m \in db.health_metric :
        /\ m.payload_id = payload_id /\ m.name = metric.name
        /\ m.data_hash = generate_metric_hash(metric.name, metric.data)}
DataRows(metric_id) ==
    {b.id : b \in {x \in db.blood_pressure : x.metric_id = metric_id}}
    \cup {q.id : q \in {x \in db.quantity_timestamp : x.metric_id = metric_id}}

\* C1: once a call for payload P has returned success or partial_success
\* and its payload row is committed, a later call with the same content
\* returns 'duplicate' with metrics_processed = 0, metrics_skipped =
\* len(P.metrics) and the stored row's id, and commits no row of its own.
C1_SequentialResubmissionIsDuplicate ==
    \A r1, r2 \in Requests :
        ( /\ Processed(r1)
          /\ \E p \in db.health_payload : p.id = result[r1].payload_id
          /\ Later(r1, r2)
          /\ SamePayload(r1, r2) )
        => /\ OwnsNoRow(r2)
           /\ ~run[r2].admitted
           /\ pc[r2] \in {"done", "raised"}
           /\ Returned(r2) =>
                result[r2] = [status |-> "duplicate",
                              payload_id |-> result[r1].payload_id,
                              metrics_processed |-> 0,
                              metrics_skipped |-> Len(run[r2].payload.metrics)]

C1_Witness ==
    \E r1, r2 \in Requests :
        /\ Processed(r1)
        /\ \E p \in db.health_payload : p.id = result[r1].payload_id
        /\ Later(r1, r2) /\ SamePayload(r1, r2)
        /\ Returned(r2) /\ result[r2].status = "duplicate"
        /\ result[r2].metrics_skipped = 2

\* C2: when two calls run concurrently on the same payload content and
\* both return (no storage fault injected), exactly one was admitted and
\* processed the metrics, the other returned 'duplicate' with the admitted call's payload id, and
\* exactly one payload row with that fingerprint is stored.
C2_ConcurrentIdenticalAdmission ==
    \A r1, r2 \in Requests :
        ( /\ Concurrent(r1, r2) /\ SamePayload(r1, r2)
          /\ Returned(r1) /\ Returned(r2)
          /\ ~run[r1].faulted /\ ~run[r2].faulted )
        => \E a, d \in {r1, r2} :
              /\ a # d
              /\ Processed(a)
              /\ result[d] = [status |-> "duplicate",
                              payload_id |-> result[a].payload_id,
                              metrics_processed |-> 0,
                              metrics_skipped |-> Len(run[d].payload.metrics)]
              /\ Cardinality(PayloadRows(run[a].payload_hash)) = 1

\* C3: no two payload rows have the same payload_hash, in the committed
\* store and in what any open transaction sees.
C3_PayloadHashUnique ==
    /\ \A p, q \in db.health_payload : p.payload_hash = q.payload_hash => p = q
    /\ \A r \in Requests :
          \A p, q \in View(session[r]).health_payload :
              p.payload_hash = q.payload_hash => p = q

C3_Witness ==
    \E r1, r2 \in Requests :
        /\ Concurrent(r1, r2) /\ SamePayload(r1, r2)
        /\ Processed(r1) /\ Returned(r2)
        /\ run[r2].pre = {}
        /\ result[r2].status = "duplicate"
        /\ Cardinality(PayloadRows(run[r1].payload_hash)) = 1

\* C4: when a call returns success or partial_success (no storage fault
\* injected; a metric may have failed on a constraint), the payload row
\* with the returned id and, for every metric counted as processed, its
\* metric row and the data rows it wrote are committed.
C4_ReportedResultIsDurable ==
    \A r \in Requests :
        (Processed(r) /\ ~run[r].faulted)
        => /\ \E p \in db.health_payload : p.id = result[r].payload_id
           /\ \A j \in 1..Len(run[r].outcomes) :
                 run[r].outcomes[j].ret
                 => /\ \A id \in run[r].outcomes[j].metric_ids :
                          /\ \E m \in db.health_metric : m.id = id
                          /\ run[r].outcomes[j].data_ids \subseteq DataRows(id)
                    /\ run[r].outcomes[j].metric_ids # {}

\* C5: when a call raises, no row written by it is committed or left in
\* its transaction, and a later call with the same content (no third
\* call having stored it) is not answered 'duplicate'.
C5_FailureAtomicity ==
    \A r \in Requests :
        pc[r] = "raised"
        => /\ OwnsNoRow(r)
           /\ session[r].ins = EmptyTables
           /\ \A r2 \in Requests :
                 ( /\ Later(r, r2) /\ SamePayload(r, r2) /\ Returned(r2)
                   /\ \A r3 \in Requests \ {r, r2} : OwnsNoRow(r3) )
                 => result[r2].status # "duplicate"

C5_Witness ==
    \E r, r2 \in Requests :
        /\ pc[r] = "raised" /\ run[r].admitted
        /\ Len(run[r].payload.metrics) >= 1
        /\ Later(r, r2) /\ SamePayload(r, r2)
        /\ Returned(r2) /\ result[r2].status = "success"
        /\ ~OwnsNoRow(r2)

\* C6: when a metric of an admitted payload fails, it is counted as
\* skipped and every later metric gets the outcome it would get if the
\* failed metric were absent from the list.
C6_PerMetricIsolation ==
    \A r \in Requests :
        (Admitted(r) /\ run[r].first_failed # 0)
        => /\ result[r].metrics_skipped >= 1
           /\ \A j \in (run[r].first_failed + 1)..Len(run[r].outcomes) :
                 run[r].outcomes[j].ret = run[r].without_failed[j - 1]

\* C7: a storage fault inside the processing of an admitted payload
\* (here a statement rejected for a constraint that is no expected
\* natural-key collision) makes the call raise: no call returns a result
\* after one.
C7_StorageFaultsPropagate ==
    \A r \in Requests :
        (Admitted(r) /\ ~run[r].faulted)
        => /\ run[r].state_at_commit = "active"
           /\ \A j \in 1..Len(run[r].outcomes) : run[r].outcomes[j].why # "error"

\* C8: two metrics of one payload with the same name and different data
\* (neither repeating an earlier metric, no storage fault injected) are
\* both counted as processed and both stored as metric rows with their data.
C8_SameNameDifferentDataBothStored ==
    \A r \in Requests :
        (Admitted(r) /\ ~run[r].faulted)
        => \A i, j \in 1..Len(run[r].payload.metrics) :
              LET ms == run[r].payload.metrics
              IN ( /\ i < j
                   /\ ms[i].name = ms[j].name /\ ms[i].data # ms[j].data
                   /\ \A k \in 1..(j - 1) : ~SameMetric(ms[k], ms[j])
                   /\ \A k \in 1..(i - 1) : ~SameMetric(ms[k], ms[i]) )
                 => /\ run[r].outcomes[i].ret /\ run[r].outcomes[j].ret
                    /\ MetricRows(result[r].payload_id, ms[i]) # {}
                    /\ MetricRows(result[r].payload_id, ms[j]) # {}
                    /\ MetricRows(result[r].payload_id, ms[i])
                         # MetricRows(result[r].payload_id, ms[j])
                    /\ \A m \in MetricRows(result[r].payload_id, ms[i])
                             \cup MetricRows(result[r].payload_id, ms[j]) :
                          DataRows(m.id) # {}

\* C9: a metric whose name and data repeat an earlier metric of the same
\* payload is answered False: it is counted as skipped and not as
\* processed, no second metric row exists for (payload_id, name,
\* data_hash), and it writes or changes no data row.
C9_MetricLevelDedup ==
    \A r \in Requests :
        Admitted(r)
        => LET ms == run[r].payload.metrics
               os == run[r].outcomes
           IN /\ \A i, j \in 1..Len(ms) :
                    (i < j /\ SameMetric(ms[i], ms[j]))
                    => /\ ~os[j].ret
                       /\ os[j].metric_ids = {}
                       /\ os[j].data_ids = {}
                       /\ ~os[j].data_changed
              /\ result[r].metrics_skipped = Cardinality({j \in 1..Len(os) : ~os[j].ret})
              /\ result[r].metrics_processed = Cardinality({j \in 1..Len(os) : os[j].ret})
              /\ \A j \in 1..Len(ms) :
                    Cardinality(MetricRows(result[r].payload_id, ms[j])) <= 1

C9_Witness ==
    \E r \in Requests :
        /\ Admitted(r)
        /\ Len(run[r].payload.metrics) = 2
        /\ SameMetric(run[r].payload.metrics[1], run[r].payload.metrics[2])
        /\ run[r].outcomes[1].ret
        /\ run[r].outcomes[2].why = "duplicate"
        /\ result[r].metrics_processed = 1 /\ result[r].metrics_skipped = 1
        /\ Cardinality(MetricRows(result[r].payload_id, run[r].payload.metrics[1])) = 1
        /\ \E m \in MetricRows(result[r].payload_id, run[r].payload.metrics[1]) :
              Cardinality(DataRows(m.id)) = 1

\* C10: a returned status is success, partial_success or duplicate; for an
\* admitted payload it is success exactly when metrics_skipped = 0 and
\* partial_success otherwise (an empty metric list gives success); and
\* duplicate is returned only when a payload row with the same fingerprint,
\* written by another call, is stored.
C10_FinalStatus ==
    \A r \in Requests :
        Returned(r)
        => /\ result[r].status \in {"success", "partial_success", "duplicate"}
           /\ run[r].admitted
                => /\ result[r].status = "success" <=> result[r].metrics_skipped = 0
                   /\ result[r].status = "partial_success" <=> result[r].metrics_skipped # 0
                   /\ run[r].payload.metrics = <<>> => result[r].status = "success"
           /\ ~run[r].admitted => result[r].status = "duplicate"
           /\ result[r].status = "duplicate"
                => \E p \in PayloadRows(run[r].payload_hash) :
                      p.id = result[r].payload_id /\ Owner(p.id) # r

C10_Witness ==
    \E r1, r2 \in Requests :
        /\ Returned(r1) /\ result[r1].status = "partial_success"
        /\ Returned(r2) /\ result[r2].status = "duplicate"
        /\ result[r2].payload_id = result[r1].payload_id

\* The entries of a metric that are parsed models, and whether a data row
\* of one of the given metric rows holds an entry's date.
ValidEntries(metric) == {i \in 1..Len(metric.data) : has_model_dump(metric.data[i])}
EntryWritten(metric_ids, entry) ==
    \/ \E b \in db.blood_pressure : b.metric_id \in metric_ids /\ b.date = entry.date
    \/ \E q \in db.quantity_timestamp : q.metric_id \in metric_ids /\ q.date = entry.date

\* C11: a metric whose data holds a malformed entry among valid ones (no
\* storage fault injected, no earlier metric failed) is counted as
\* processed and every valid entry of it is written.
C11_MalformedEntriesSkippedIndividually ==
    \A r \in Requests :
        (Admitted(r) /\ ~run[r].faulted)
        => \A j \in 1..Len(run[r].payload.metrics) :
              LET metric == run[r].payload.metrics[j]
              IN ( /\ ValidEntries(metric) # {}
                   /\ ValidEntries(metric) # 1..Len(metric.data)
                   /\ \A k \in 1..(j - 1) : run[r].outcomes[k].why # "error" )
                 => /\ run[r].outcomes[j].ret
                    /\ result[r].metrics_processed >= 1
                    /\ \A i \in ValidEntries(metric) :
                          EntryWritten(run[r].outcomes[j].metric_ids, metric.data[i])

\* The direct calls of the four data writers, and the number of bound
\* values of a statement: the field counts of its records added up.
WriterOps == {"insert_quantity_data_idempotent", "insert_specialized_data_idempotent",
              "insert_workout_points", "insert_route_points"}
RECURSIVE BoundValues(_)
BoundValues(chunk) ==
    IF chunk = <<>> THEN 0
    ELSE Cardinality(DOMAIN Head(chunk)) + BoundValues(Tail(chunk))

\* C12: every statement a data writer issues carries at most max_params
\* bound values, also when the records differ in their number of fields
\* and when one record has more than max_params fields.
C12_ParameterCeiling ==
    call.op \in WriterOps
    => \A i \in 1..Len(call.statements) :
          BoundValues(call.statements[i]) <= call.max_params

RECURSIVE Flatten(_)
Flatten(chunks) ==
    IF chunks = <<>> THEN <<>> ELSE Head(chunks) \o Flatten(Tail(chunks))

\* C13: for every list of built records and every positive batch_size and
\* max_params, the statements a data writer executes hold each record
\* exactly once (so the effective batch size is never 0).
C13_NoRecordLostOrRepeated ==
    call.op \in WriterOps => Flatten(call.statements) = call.records

\* C14: chunked_iterable(records, size) with size >= 1 yields chunks whose
\* concatenation is the input in order; no chunk is empty, every chunk but
\* the last has exactly size elements, the last between 1 and size; an
\* empty input yields no chunk.
C14_ChunksPartitionTheInput ==
    call.op = "chunked_iterable"
    => /\ Flatten(call.chunks) = call.records
       /\ \A i \in 1..Len(call.chunks) :
             /\ Len(call.chunks[i]) >= 1
             /\ Len(call.chunks[i]) <= call.size
             /\ i < Len(call.chunks) => Len(call.chunks[i]) = call.size
       /\ call.records = <<>> => call.chunks = <<>>

C14_Witness ==
    /\ call.op = "chunked_iterable"
    /\ call.size = 2
    /\ Len(call.records) = 3
    /\ Len(call.chunks) = 2
    /\ Len(call.chunks[2]) = 1

\* Natural key and update set of the tables written with DO UPDATE.
NaturalKey(table) ==
    IF table = "quantity_timestamp" THEN {"metric_id", "date", "source"}
    ELSE IF table = "blood_pressure" THEN {"metric_id", "date"}
    ELSE {"payload_id", "name", "start"}

UpdateSet(table) ==
    IF table = "quantity_timestamp" THEN {"qty", "id"}
    ELSE IF table = "blood_pressure" THEN {"systolic", "diastolic"}
    ELSE {"end", "elevation"}

\* Two rows collide when they agree on every key column; NULL equals nothing.
Collides(table, x, rec) ==
    \A k \in NaturalKey(table) : x[k] = rec[k] /\ (k = "source" => rec[k] # "null")

Overwritten(table, x, rec) ==
    [f \in DOMAIN x |-> IF f \in UpdateSet(table) THEN rec[f] ELSE x[f]]

\* C15: a record that collides with an existing row on the natural key of
\* its table overwrites exactly the update set of that row (qty and id for
\* the generic table, end and elevation for workouts) and leaves every
\* other column as it was; a record that collides with nothing is inserted
\* as a new row with all its fields.
C15_UpsertFrame ==
    call.op = "upsert"
    => LET hit == {x \in call.before : Collides(call.table, x, call.rec)}
       IN call.after =
              IF hit = {} THEN call.before \cup {call.rec}
              ELSE (call.before \ hit)
                   \cup {Overwritten(call.table, x, call.rec) : x \in hit}

C15_Witness ==
    /\ call.op = "upsert"
    /\ call.table = "workout"
    /\ call.before = {ExistingWorkoutRow}
    /\ Collides("workout", ExistingWorkoutRow, call.rec)
    /\ call.after = {[ExistingWorkoutRow EXCEPT !.end = 3, !.elevation = call.rec.elevation]}

\* A metric's data holds two parsed entries with the same natural key
\* (for blood_pressure: the same date under the one metric id).
SameKeyEntries(metric) ==
    {p \in ValidEntries(metric) \X ValidEntries(metric) :
        p[1] < p[2] /\ metric.data[p[1]].date = metric.data[p[2]].date}

\* C16: when the data of one metric holds two entries with the same natural
\* key (no storage fault injected, no earlier metric failed), the metric is
\* processed and exactly one row for that key persists, holding the later
\* entry's values.
C16_LastWriteWins ==
    \A r \in Requests :
        (Admitted(r) /\ ~run[r].faulted)
        => \A j \in 1..Len(run[r].payload.metrics) :
              LET metric == run[r].payload.metrics[j]
              IN ( /\ lower(metric.name) = "blood_pressure"
                   /\ \A k \in 1..(j - 1) : run[r].outcomes[k].why # "error" )
                 => \A p \in SameKeyEntries(metric) :
                       LET later == metric.data[p[2]]
                           rows == {b \in db.blood_pressure :
                                       /\ b.metric_id \in run[r].outcomes[j].metric_ids
                                       /\ b.date = later.date}
                       IN /\ run[r].outcomes[j].ret
                          /\ Cardinality(rows) = 1
                          /\ \A b \in rows : /\ b.systolic = later.systolic
                                              /\ b.diastolic = later.diastolic

\* The workouts of a list that share the natural key of w, in list order,
\* their child records in writing order, and the first element of a
\* sequence that passes a test.
SameWorkouts(ws, w) == SelectSeq(ws, LAMBDA v : v.name = w.name /\ v.start = w.start)
RECURSIVE AllHeartRate(_)
AllHeartRate(ws) ==
    IF ws = <<>> THEN <<>> ELSE Head(ws).heart_rate \o AllHeartRate(Tail(ws))
RECURSIVE AllRoute(_)
AllRoute(ws) ==
    IF ws = <<>> THEN <<>> ELSE Head(ws).route \o AllRoute(Tail(ws))
RECURSIVE AllTotalEnergy(_)
AllTotalEnergy(ws) ==
    IF ws = <<>> THEN <<>>
    ELSE (IF Head(ws).total_energy = None THEN <<>> ELSE <<Head(ws).total_energy>>)
         \o AllTotalEnergy(Tail(ws))
First(seq, Test(_)) ==
    seq[CHOOSE i \in 1..Len(seq) : Test(seq[i]) /\ \A j \in 1..(i - 1) : ~Test(seq[j])]
WorkoutRowsOf(r, w) ==
    {x \in db.workout :
        x.payload_id = run[r].payload_id /\ x.name = w.name /\ x.start = w.start}
\* r was admitted, no storage fault was injected and no metric failed.
Undisturbed(r) ==
    /\ Processed(r) /\ ~run[r].faulted
    /\ \A k \in 1..Len(run[r].outcomes) : run[r].outcomes[k].why # "error"

\* C17: workout values, workout points and route points are registered
\* once: for every child key written by the workouts of a payload, the one
\* row of that key holds the fields of the first record written for it (a
\* later colliding record changes nothing), and the records of the same
\* statement that collide with nothing are inserted.
C17_RegisterOnceChildren ==
    \A r \in Requests :
        Undisturbed(r)
        => \A k \in 1..Len(run[r].payload.workouts) :
              LET w == run[r].payload.workouts[k]
                  same == SameWorkouts(run[r].payload.workouts, w)
              IN \A x \in WorkoutRowsOf(r, w) :
                    /\ \A i \in 1..Len(w.heart_rate) :
                          LET first == First(AllHeartRate(same),
                                             LAMBDA p : p.date = w.heart_rate[i].date)
                              rows == {c \in db.workout_point :
                                          /\ c.workout_id = x.id /\ c.stream = "heart_rate"
                                          /\ c.date = first.date}
                          IN /\ Cardinality(rows) = 1
                             /\ \A c \in rows : c.qty = first.qty /\ c.units = first.units
                    /\ \A i \in 1..Len(w.route) :
                          LET first == First(AllRoute(same),
                                             LAMBDA p : p.timestamp = w.route[i].timestamp)
                              rows == {c \in db.workout_route_point :
                                          c.workout_id = x.id /\ c.timestamp = first.timestamp}
                          IN /\ Cardinality(rows) = 1
                             /\ \A c \in rows : /\ c.lat = first.lat /\ c.lon = first.lon
                                                 /\ c.altitude = first.altitude
                    /\ w.total_energy # None
                       => LET first == Head(AllTotalEnergy(same))
                              rows == {c \in db.workout_value :
                                          c.workout_id = x.id /\ c.name = "total_energy"}
                          IN /\ Cardinality(rows) = 1
                             /\ \A c \in rows : c.qty = first.qty /\ c.units = first.units

C17_Witness ==
    \E r \in Requests :
        /\ Undisturbed(r)
        /\ run[r].payload.workouts = <<CyclingFirst, CyclingSecond>>
        /\ \E x \in WorkoutRowsOf(r, CyclingFirst) :
              /\ \E c \in db.workout_point : c.workout_id = x.id /\ c.date = 1 /\ c.qty = 60
              /\ \E c \in db.workout_point : c.workout_id = x.id /\ c.date = 2 /\ c.qty = 71
              /\ \E c \in db.workout_value : c.workout_id = x.id /\ c.qty = 300
              /\ \E c \in db.workout_route_point :
                    c.workout_id = x.id /\ c.timestamp = 2 /\ c.lat = 3

\* C18: at most one workout row exists per (payload_id, name, start); when
\* a payload holds two workouts with the same name and start, processing
\* both leaves a single row with the end and the elevation of the later
\* one, and the child rows written for both workouts carry that row's id.
C18_WorkoutConvergence ==
    /\ \A x, y \in db.workout :
          (x.payload_id = y.payload_id /\ x.name = y.name /\ x.start = y.start) => x = y
    /\ \A r \in Requests :
          Undisturbed(r)
          => \A k \in 1..Len(run[r].payload.workouts) :
                LET w == run[r].payload.workouts[k]
                    same == SameWorkouts(run[r].payload.workouts, w)
                    later == same[Len(same)]
                    children == {c \in db.workout_value \cup db.workout_point
                                        \cup db.workout_route_point :
                                    Owner(c.id) = r}
                IN /\ Cardinality(WorkoutRowsOf(r, w)) = 1
                   /\ \A x \in WorkoutRowsOf(r, w) :
                         /\ x.end = later.end /\ x.elevation = later.elevation
                         /\ Len(same) = Len(run[r].payload.workouts)
                            => \A c \in children : c.workout_id = x.id
                   /\ (w.heart_rate # <<>> /\ w.route # <<>> /\ w.total_energy # None)
                      => \A t \in {"workout_value", "workout_point", "workout_route_point"} :
                            \E c \in db[t] : Owner(c.id) = r

C18_Witness ==
    \E r \in Requests :
        /\ Undisturbed(r)
        /\ run[r].payload.workouts = <<CyclingFirst, CyclingSecond>>
        /\ \E x \in db.workout :
              /\ x.payload_id = run[r].payload_id
              /\ x.end = CyclingSecond.end /\ x.elevation = CyclingSecond.elevation
              /\ Cardinality({c \in db.workout_point : c.workout_id = x.id}) = 2
              /\ Cardinality({c \in db.workout_route_point : c.workout_id = x.id}) = 2

\* The metrics of a run that returned TRUE.
ReturnedTrue(r) == {j \in 1..Len(run[r].outcomes) : run[r].outcomes[j].ret}

\* C19: a failure inside one workout stays inside insert_workout_idempotent:
\* a run that went through the loops returns a result, has called
\* insert_workout_idempotent for every workout of the payload, also for
\* those after a failed one, and its counts and status are those of the
\* metric outcomes alone.
C19_WorkoutIsolation ==
    \A r \in Requests :
        Admitted(r)
        => /\ Len(run[r].attempted) = Len(run[r].payload.workouts)
           /\ result[r].metrics_processed = Cardinality(ReturnedTrue(r))
           /\ result[r].metrics_skipped =
                  Len(run[r].payload.metrics) - Cardinality(ReturnedTrue(r))
           /\ result[r].status =
                  IF ReturnedTrue(r) = 1..Len(run[r].payload.metrics)
                  THEN "success" ELSE "partial_success"

\* The first of two workouts failed and the second was still called.
C19_Witness ==
    \E r \in Requests :
        /\ Admitted(r) /\ run[r].faulted
        /\ run[r].payload.workouts = <<CyclingFirst, CyclingSecond>>
        /\ run[r].attempted = <<TRUE, FALSE>>
        /\ result[r].status = "success"

\* The table registered for a submitted metric name, whatever its letter
\* case, and the data rows that each table holds for a set of metric ids.
ExpectedTable(name) ==
    IF name \in {"blood_pressure", "Blood_Pressure"} THEN "blood_pressure"
    ELSE "quantity_timestamp"
DataTables == {"blood_pressure", "quantity_timestamp"}
RowsIn(table, metric_ids) == {x \in db[table] : x.metric_id \in metric_ids}

\* C20: the data of every inserted metric with at least one well-formed
\* entry (no storage fault injected, no metric failed) is found in exactly
\* one table: the specialized table registered for its lower-cased name, or
\* the generic quantity table when none is registered; never in two tables
\* and never in none.
C20_Dispatch ==
    \A r \in Requests :
        Undisturbed(r)
        => \A j \in ReturnedTrue(r) :
              LET metric == run[r].payload.metrics[j]
                  metric_ids == run[r].outcomes[j].metric_ids
              IN ValidEntries(metric) # {}
                 => \A t \in DataTables :
                       (RowsIn(t, metric_ids) # {}) <=> (t = ExpectedTable(metric.name))

\* The natural keys (date, source) of the well-formed entries of a metric.
EntryKeys(metric) ==
    {<<metric.data[i].date, metric.data[i].source>> : i \in ValidEntries(metric)}

\* C21: for a processed metric without a specialized shape (no storage
\* fault injected, no metric failed), every well-formed entry has a row in
\* the generic table with the metric's id and the entry's date, qty and
\* source, and the metric has as many generic rows as its entries have
\* distinct (date, source).
C21_GenericRecordsPersisted ==
    \A r \in Requests :
        Undisturbed(r)
        => \A j \in ReturnedTrue(r) :
              LET metric == run[r].payload.metrics[j]
                  rows == RowsIn("quantity_timestamp", run[r].outcomes[j].metric_ids)
              IN ExpectedTable(metric.name) = "quantity_timestamp"
                 => /\ \A i \in ValidEntries(metric) :
                          \E q \in rows : /\ q.date = metric.data[i].date
                                          /\ q.qty = metric.data[i].qty
                                          /\ q.source = metric.data[i].source
                    /\ Cardinality(rows) = Cardinality(EntryKeys(metric))

\* C22: receive_health_data answers a 'duplicate' result with 200, a
\* 'success' or 'partial_success' result with 201 and every storage fault
\* raised by insert_health_data, an integrity violation included, with 500.
C22_ResponseCodeSelection ==
    call.op = "receive_health_data"
    => call.status_code =
          IF call.outcome.kind = "raised" THEN 500
          ELSE IF call.outcome.status = "duplicate" THEN 200
          ELSE 201

\* Row x of table t belongs, directly or through its metric or workout, to
\* the payload with the given id.
OwnedBy(rows, payload_id, t, x) ==
    IF t = "health_payload" THEN x.id = payload_id
    ELSE IF t \in {"health_metric", "workout"} THEN x.payload_id = payload_id
    ELSE IF t \in {"quantity_timestamp", "blood_pressure"}
    THEN \E m \in rows.health_metric : m.id = x.metric_id /\ m.payload_id = payload_id
    ELSE \E w \in rows.workout : w.id = x.workout_id /\ w.payload_id = payload_id

\* A step of delete_payload without a storage fault: an existing payload
\* is answered 200 and exactly its own rows leave the store; a missing one
\* is answered 404 and the store stays as it is.
DeleteStep ==
    (call' # call /\ call'.op = "delete_payload" /\ call'.fault = "none")
    => IF \E p \in db.health_payload : p.id = call'.payload_id
       THEN /\ call'.status_code = 200
            /\ \A t \in Tables :
                  db'[t] = {x \in db[t] : ~OwnedBy(db, call'.payload_id, t, x)}
       ELSE /\ call'.status_code = 404
            /\ db' = db

\* A request that arrived after the last committed deletion with the
\* content of the deleted payload, and returned, was admitted as new.
AdmittedAfterDelete ==
    (call.op = "delete_payload" /\ call.status_code = 200)
    => \A r \in Requests \ call.started :
          (pc[r] = "done" /\ run[r].payload_hash = call.payload_hash) => run[r].admitted

\* C23: after delete_payload(P) commits, P and every row owned by it
\* directly or transitively are absent and all other rows are unchanged; a
\* later submission of the same content is admitted as new; deleting an
\* id that does not exist answers 404 and changes nothing.
C23_CascadeDeletion == [][DeleteStep]_vars /\ []AdmittedAfterDelete

\* A payload with a metric, a data row was stored, then deleted while the
\* other payload's rows stayed, and the same content came again and was
\* admitted.
C23_Witness ==
    /\ call.op = "delete_payload" /\ call.status_code = 200
    /\ \E r1 \in call.started, r2 \in Requests \ call.started :
          /\ Undisturbed(r1) /\ run[r1].payload_id = call.payload_id
          /\ run[r1].payload.workouts = <<CyclingFirst, CyclingSecond>>
          /\ Undisturbed(r2) /\ run[r2].payload_hash = call.payload_hash
          /\ db.workout_point # {}
          /\ \A x \in db.workout : x.payload_id = run[r2].payload_id

\* Two values have the same content: the same scalar (a datetime counts
\* as the string of its text), lists with the same content position by
\* position, dicts with the same keys and the same content under each key.
RECURSIVE SameContent(_, _)
ValueAt(dict, key) == (CHOOSE i \in {j \in DOMAIN dict.items : dict.items[j].k = key} : TRUE)
KeysOf(dict) == {dict.items[i].k : i \in DOMAIN dict.items}
IsScalar(value) == value.t \in {"num", "str", "datetime"}
SameContent(a, b) ==
    IF IsScalar(a) \/ IsScalar(b)
    THEN /\ IsScalar(a) /\ IsScalar(b)
         /\ (a.t = "num") = (b.t = "num")
         /\ a.v = b.v
    ELSE IF a.t = "list" \/ b.t = "list"
    THEN /\ a.t = b.t
         /\ Len(a.items) = Len(b.items)
         /\ \A i \in DOMAIN a.items : SameContent(a.items[i], b.items[i])
    ELSE /\ KeysOf(a) = KeysOf(b)
         /\ \A key \in KeysOf(a) :
               SameContent(a.items[ValueAt(a, key)].v, b.items[ValueAt(b, key)].v)

HashOps == {"generate_payload_hash", "generate_metric_hash"}

\* C24: generate_payload_hash and generate_metric_hash give two inputs
\* that differ only in the order of mapping keys, at any depth, the same
\* digest, and equal inputs equal digests; inputs that differ in content
\* (a value, a field more or less, the order of a list) are fingerprinted
\* from different canonical strings.
C24_FingerprintCanonicalization ==
    call.op \in HashOps
    => /\ SameContent(call.a, call.b) => call.digest_a = call.digest_b
       /\ call.a = call.b => call.digest_a = call.digest_b
       /\ ~SameContent(call.a, call.b) => call.string_a # call.string_b

\* Nested dicts written in different key orders, hashed alike.
C24_Witness ==
    /\ call.op = "generate_payload_hash"
    /\ call.a # call.b /\ SameContent(call.a, call.b)
    /\ call.a.t = "dict" /\ Len(call.a.items) = 2
    /\ call.a.items[1].k # call.b.items[1].k
    /\ call.a.items[1].v.t = "dict"
    /\ call.a.items[1].v # call.b.items[2].v
    /\ call.digest_a = call.digest_b

\* C25: every registered metric type has a conflict handler, and the
\* conflict target of every upsert (specialized, generic, workout, workout
\* value, workout point, route point) is exactly the column set of a
\* unique constraint declared on its table, so the statement is not
\* rejected for its conflict target; state_of_mind with (metric_id, start,
\* kind) included.
C25_ConflictKeysMatchConstraints ==
    call.op = "on_conflict"
    => /\ call.has_handler
       /\ call.index_elements \in UniqueConstraints[call.table]
       /\ call.outcome = "executed"

(***************************************************************************)
(* C26: every write path computes the number of records per statement      *)
(* from the field count of the records it writes: whenever                 *)
(* floor(max_params / fields) is 1 or more, the statements of a call are   *)
(* the chunks of min(batch_size, floor(max_params / fields)) records; no   *)
(* path, BatchProcessor._batch_upsert included, chunks by one fixed size.  *)
(***************************************************************************)
WritePaths == WriterOps \cup {"_batch_upsert"}

fields_per_record(records) == Cardinality(DOMAIN records[1])

DerivedChunkSize(records, batch_size_, max_params_) ==
    Min(batch_size_, max_params_ \div fields_per_record(records))

C26_ChunkSizePerEntityType ==
    (/\ call.op \in WritePaths
     /\ call.max_params \div fields_per_record(call.records) >= 1)
    => call.statements
       = chunked_iterable(call.records,
                          DerivedChunkSize(call.records, call.batch_size, call.max_params))

(***************************************************************************)
(* C27: within one run the storage calls follow the order of               *)
(* payload.metrics: every call of metric i (lookup, metric insert, data    *)
(* chunks) comes before the first call of metric i + 1, each metric's      *)
(* calls begin with its lookup and go to its own tables, and every call of *)
(* a metric comes before the first call of a workout.                      *)
(***************************************************************************)
CallsOf(r, item) == {a \in 1..Len(run[r].calls) : run[r].calls[a].item = item}

MetricTables(metric) == {"health_metric", ExpectedTable(metric.name)}

WorkoutTables == {"workout", "workout_value", "workout_point", "workout_route_point"}

C27_MetricOrder ==
    \A r \in Requests :
        LET calls == run[r].calls
            metrics == run[r].payload.metrics
        IN /\ \A a, b \in 1..Len(calls) : a < b => calls[a].item <= calls[b].item
           /\ \A a \in 1..Len(calls) :
                  /\ calls[a].item \in 1..Len(metrics)
                     => /\ calls[a].table \in MetricTables(metrics[calls[a].item])
                        /\ calls[a].op = "select"
                           <=> \A b \in CallsOf(r, calls[a].item) : a <= b
                  /\ calls[a].item > Len(metrics) => calls[a].table \in WorkoutTables
           /\ Terminal(r) /\ run[r].admitted /\ calls[Len(calls)].item > 0
              => \A i \in 1..(Len(metrics) + Len(run[r].payload.workouts)) :
                     CallsOf(r, i) # {}

\* A run with two metrics and a workout, the first metric with its lookup,
\* its insert and a data chunk.
C27_Witness ==
    \E r \in Requests :
        /\ pc[r] = "done"
        /\ Len(run[r].payload.metrics) = 2
        /\ Cardinality(CallsOf(r, 1)) >= 3
        /\ CallsOf(r, 2) # {}
        /\ CallsOf(r, 3) # {}

(***************************************************************************)
(* C28: in every run a metric, data or workout statement is issued only    *)
(* after the payload insert has returned the id this run generated; a run  *)
(* that ends with status 'duplicate' (by the existence check or by the     *)
(* insert returning another id) issues no such statement at all.           *)
(***************************************************************************)
WorkCalls(r) == {a \in 1..Len(run[r].calls) : run[r].calls[a].table # "health_payload"}

C28_AdmissionPrecedesWork ==
    \A r \in Requests :
        /\ WorkCalls(r) # {}
           => /\ run[r].calls[2] = StorageCall("insert", "health_payload", 0)
              /\ \A a \in WorkCalls(r) : a > 2
              /\ run[r].actual_payload_id = run[r].payload_id
              /\ run[r].payload_id # None
        /\ result[r].status = "duplicate" => WorkCalls(r) = {}

\* One run ends as a duplicate because its insert returned the id of
\* another run, which was admitted and issued its statements.
C28_Witness ==
    \E r, r2 \in Requests :
        /\ result[r].status = "duplicate"
        /\ Len(run[r].calls) = 2
        /\ run[r].actual_payload_id = run[r2].payload_id
        /\ run[r].actual_payload_id # run[r].payload_id
        /\ WorkCalls(r2) # {}

(***************************************************************************)
(* C29: under a store whose every call returns or fails, each submitted    *)
(* run of insert_health_data reaches a terminal outcome, and exactly one:  *)
(* a duplicate result, a success or partial_success result after commit,   *)
(* or a raised exception with nothing of the run committed; the outcome    *)
(* once reached stays.  Every chunk loop of the run issues at most         *)
(* ceil(n / chunk_size) statements for its n records.                      *)
(***************************************************************************)
Ceil(n, d) == (n + d - 1) \div d

DataCalls(r, i) ==
    {a \in CallsOf(r, i) : run[r].calls[a].table \in DataTables}

PointCalls(r, item) ==
    {a \in CallsOf(r, item) : run[r].calls[a].table = "workout_point"}

ChunkLoopsBounded(r) ==
    /\ \A i \in 1..Len(run[r].payload.metrics) :
           Cardinality(DataCalls(r, i))
           <= Ceil(Cardinality(ValidEntries(run[r].payload.metrics[i])),
                   Max(1, Min(batch_size, max_params \div 5)))
    /\ \A k \in 1..Len(run[r].payload.workouts) :
           Cardinality(PointCalls(r, Len(run[r].payload.metrics) + k))
           <= Ceil(Len(run[r].payload.workouts[k].heart_rate),
                   Max(1, Min(batch_size, max_params \div 6)))

CommittedBy(r) == UNION {{x \in db[t] : Owner(x.id) = r} : t \in Tables}

OneOutcome(r) ==
    /\ pc[r] = "done"
       => \/ result[r].status = "duplicate" /\ CommittedBy(r) = {}
          \/ /\ result[r].status \in {"success", "partial_success"}
             /\ run[r].state_at_commit \in {"active", "failed"}
    /\ pc[r] = "raised" => result[r] = NoResult /\ CommittedBy(r) = {}
    /\ ~Terminal(r) => result[r] = NoResult

OutcomeStays ==
    \A r \in Requests :
        Terminal(r) => pc'[r] = pc[r] /\ result'[r] = result[r] /\ run'[r] = run[r]

Alone(r) ==
    \A r2 \in Requests \ {r} :
        pc[r2] = "start" \/ run[r2].payload_hash # run[r].payload_hash

CommittedRows(r) == [t \in Tables |-> {x \in db[t] : Owner(x.id) = r}]

NoInterference ==
    \A r \in Requests :
        Alone(r) /\ pc'[r] = pc[r]
        => CommittedRows(r)' = CommittedRows(r) /\ result'[r] = result[r]

AdmittedAlone ==
    \A r \in Requests :
        Alone(r)
        => /\ pc[r] = "insert_payload" => ~WaitsForPayloadHash(r, run[r].payload_hash)
           /\ pc[r] \in {"process", "done"} => run[r].admitted
           /\ pc[r] = "process"
              => Pending(session[r], run[r].payload, run[r].payload_id) = run[r].pending
           /\ pc[r] = "done"
              => /\ result[r].status # "duplicate"
                 /\ ~run[r].faulted
                    => /\ run[r].counts = run[r].pending.counts
                       /\ run[r].outcomes = run[r].pending.outcomes
                       /\ run[r].state_at_commit = run[r].pending.state
                       /\ run[r].state_at_commit = "active"
                          => CommittedRows(r) = run[r].pending.ins

C30_Independence == [][NoInterference]_vars /\ []AdmittedAlone

\* Both runs were under way together and both committed a metric with the
\* same name and data and a workout with the same name and start.
C30_Witness ==
    \E r, r2 \in Requests :
        /\ r # r2 /\ Alone(r)
        /\ pc[r] = "done" /\ pc[r2] = "done"
        /\ run[r].after = {} /\ run[r2].after = {}
        /\ \E m \in CommittedRows(r).health_metric, m2 \in CommittedRows(r2).health_metric :
               m.name = m2.name /\ m.data_hash = m2.data_hash
        /\ \E w \in CommittedRows(r).workout, w2 \in CommittedRows(r2).workout :
               w.name = w2.name /\ w.start = w2.start

(***************************************************************************)
(* C31.  Ownership integrity: in every committed store state every metric  *)
(* row references an existing payload row, every blood-pressure and        *)
(* quantity row an existing metric row, every workout an existing payload  *)
(* row, and every workout value, point and route point an existing         *)
(* workout.  Ingestions, faults, rollbacks and deletions leave no orphan.  *)
(***************************************************************************)
Ids(rows) == {x.id : x \in rows}

NoOrphans(rows) ==
    /\ \A m \in rows.health_metric : m.payload_id \in Ids(rows.health_payload)
    /\ \A t \in {"quantity_timestamp", "blood_pressure"} :
           \A x \in rows[t] : x.metric_id \in Ids(rows.health_metric)
    /\ \A w \in rows.workout : w.payload_id \in Ids(rows.health_payload)
    /\ \A t \in {"workout_value", "workout_point", "workout_route_point"} :
           \A x \in rows[t] : x.workout_id \in Ids(rows.workout)

C31_OwnershipIntegrity == NoOrphans(db)

\* The payload of a finished run was deleted with its rows, and the rows
\* of the other run's payload, data rows among them, are still stored.
C31_Witness ==
    /\ call.op = "delete_payload" /\ call.status_code = 200
    /\ \E r \in call.started :
          /\ run[r].payload_id = call.payload_id /\ pc[r] = "done"
          /\ run[r].counts.metrics_processed + Len(run[r].attempted) > 0
    /\ db.health_payload # {}
    /\ db.blood_pressure # {} \/ db.workout_point # {}

(***************************************************************************)
(* C32.  insert_health_data_optimized short-circuits on a lost admission   *)
(* race: a run whose payload insert returned the id of a row inserted by a *)
(* concurrent run, not the id it generated, returns 'duplicate' with that  *)
(* id and issues no metric or workout write (no storage fault injected).   *)
(***************************************************************************)
LostRace(r) ==
    /\ run[r].actual_payload_id # None
    /\ run[r].actual_payload_id # run[r].payload_id

WritesAfterPayload(r) ==
    {i \in 1..Len(run[r].calls) : run[r].calls[i].table # "health_payload"}

C32_OptimizedLostRaceIsDuplicate ==
    \A r \in Requests :
        (Terminal(r) /\ LostRace(r) /\ ~run[r].faulted)
        => /\ result[r].status = "duplicate"
           /\ result[r].payload_id = run[r].actual_payload_id
           /\ WritesAfterPayload(r) = {}

(***************************************************************************)
(* C33.  Timeout and cancellation: the processing of a payload is bounded  *)
(* by the overall timeout; a run that was timed out or cancelled at a      *)
(* storage call before its commit has committed no row; and a submission   *)
(* with the same fingerprint that arrives after a cancelled run is         *)
(* admitted as new and processed in full.                                  *)
(***************************************************************************)
BoundedByTimeout == \A r \in Requests : Elapsed(r) <= request_timeout

RowsOwnedBy(r) == UNION {{x \in db[t] : Owner(x.id) = r} : t \in Tables}

Cancelled(r) == pc[r] = "raised" /\ result[r].status = "cancelled"

CommittedActive(r) == pc[r] = "done" /\ run[r].state_at_commit = "active"

AbortedLeavesNothing ==
    \A r \in Requests : (Terminal(r) /\ ~CommittedActive(r)) => RowsOwnedBy(r) = {}

RetryAfterCancelProcessed ==
    \A r, r2 \in Requests :
        ( /\ Cancelled(r) /\ r \in run[r2].after
          /\ run[r2].payload_hash = run[r].payload_hash
          /\ CommittedActive(r2) )
        => /\ result[r2].status \in {"success", "partial_success"}
           /\ result[r2].metrics_processed + result[r2].metrics_skipped
                  = Len(run[r2].payload.metrics)
           /\ \E p \in db.health_payload :
                  p.id = result[r2].payload_id /\ Owner(p.id) = r2

C33_TimeoutAndCancellation ==
    BoundedByTimeout /\ AbortedLeavesNothing /\ RetryAfterCancelProcessed

(***************************************************************************)
(* C34.  Commit discipline of insert_health_data: commit is called at most *)
(* once, only by an admitted run and only after every metric and every     *)
(* workout of the payload has been attempted; rollback is called only when *)
(* an exception escapes; a run that returns 'duplicate' calls neither; and *)
(* no run calls both.                                                      *)
(***************************************************************************)
Commits(r) == {i \in 1..Len(run[r].txn) : run[r].txn[i].op = "commit"}
Rollbacks(r) == {i \in 1..Len(run[r].txn) : run[r].txn[i].op = "rollback"}

CommitAfterLoops(r) ==
    /\ Cardinality(Commits(r)) <= 1
    /\ \A i \in Commits(r) :
           /\ run[r].admitted
           /\ run[r].txn[i].metrics = Len(run[r].payload.metrics)
           /\ run[r].txn[i].workouts = Len(run[r].payload.workouts)
    /\ Rollbacks(r) # {} => pc[r] = "raised"
    /\ result[r].status = "duplicate" => run[r].txn = <<>>

ResultReturned(r) == result[r].status \in {"duplicate", "success", "partial_success"}

C35_CountConservation ==
    \A r \in Requests :
        ResultReturned(r)
        => /\ result[r].metrics_processed >= 0 /\ result[r].metrics_skipped >= 0
           /\ result[r].metrics_processed + result[r].metrics_skipped
                  = Len(run[r].payload.metrics)
           /\ result[r].status # "duplicate"
              => /\ Len(run[r].outcomes) = Len(run[r].payload.metrics)
                 /\ result[r].metrics_processed = Cardinality(ReturnedTrue(r))
                 /\ result[r].metrics_skipped
                        = Cardinality(DOMAIN run[r].outcomes \ ReturnedTrue(r))

\* One run returned with a processed and a skipped metric, the other was
\* answered 'duplicate' for a payload with metrics.
C35_Witness ==
    \E r, r2 \in Requests :
        /\ result[r].status = "partial_success"
        /\ result[r].metrics_processed > 0 /\ result[r].metrics_skipped > 0
        /\ result[r2].status = "duplicate" /\ result[r2].metrics_skipped > 0

(***************************************************************************)
(* C36.  A skipped metric leaves no residue: when insert_metric_idempotent *)
(* returned False because a statement that writes the metric's data raised *)
(* after the metric row had been inserted, then after the payload's commit *)
(* the store holds neither that metric row nor a data row written for it.  *)
(***************************************************************************)
FailedAfterInsert(r) ==
    {j \in DOMAIN run[r].outcomes :
        /\ ~run[r].outcomes[j].ret
        /\ run[r].outcomes[j].why = "error"
        /\ run[r].outcomes[j].metric_ids # {}}

StoredPayload(rows, payload_id) == {p \in rows.health_payload : p.id = payload_id}

EndsDuplicate(r) ==
    result[r].status # "duplicate" /\ result'[r].status = "duplicate"

DuplicateLeavesPayload ==
    \A r \in Requests :
        EndsDuplicate(r)
        => /\ StoredPayload(db', result'[r].payload_id)
                 = StoredPayload(db, result'[r].payload_id)
           /\ Cardinality(StoredPayload(db, result'[r].payload_id)) = 1
           /\ \A p \in StoredPayload(db, result'[r].payload_id) :
                  p.payload_hash = run'[r].payload_hash

C37_DuplicateLeavesPayloadUnchanged == [][DuplicateLeavesPayload]_vars

\* One run was answered 'duplicate' by the existence check and one after
\* its insert collided, and the stored row carries the time of the run
\* that inserted it.
C37_Witness ==
    \E r \in Requests :
        /\ result[r].status = "duplicate"
        /\ run[r].actual_payload_id # None
        /\ Owner(run[r].actual_payload_id) # r
        /\ \E p \in db.health_payload :
               p.id = result[r].payload_id /\ p.received_at = <<"now", Owner(p.id)>>

(***************************************************************************)
(* C38.  Count conservation in the optimized path: a run of                *)
(* insert_health_data_optimized that reaches insert_metric_batch (no       *)
(* storage fault injected, payload without workouts) gets a pair from it   *)
(* and returns a result with processed + skipped = len(metrics), and the   *)
(* status is 'partial_success' whenever a metric of the payload was not    *)
(* inserted.                                                               *)
(***************************************************************************)
NotInserted(r) ==
    {j \in 1..Len(run[r].payload.metrics) :
        uq_health_metric_data(db.health_metric, run[r].actual_payload_id,
                              run[r].payload.metrics[j].name,
                              generate_metric_hash(run[r].payload.metrics[j].name,
                                                   run[r].payload.metrics[j].data)) = {}}

ReachedMetricBatch(r) ==
    Terminal(r) /\ run[r].actual_payload_id # None /\ ~run[r].faulted

C38_OptimizedCountConservation ==
    \A r \in Requests :
        (ReachedMetricBatch(r) /\ run[r].payload.workouts = <<>>)
        => /\ ResultReturned(r)
           /\ result[r].metrics_processed + result[r].metrics_skipped
                  = Len(run[r].payload.metrics)
           /\ NotInserted(r) # {} => result[r].status = "partial_success"

====
